---- MODULE Spec2Model ----
(***************************************************************************)
(* Model of the valkey-bloom module: the scaling bloom object              *)
(* (src/bloom/utils.rs), its codec and snapshot stream                     *)
(* (src/bloom/utils.rs, src/bloom/data_type.rs, src/wrapper/               *)
(* bloom_callback.rs) and the command layer with replication               *)
(* (src/bloom/command_handler.rs).                                          *)
(*                                                                         *)
(* Numbers are scaled down so that every branch is reachable:              *)
(*  - an f64 rate is a fixed-point number of 1/FP_ONE units, and           *)
(*    f64::MIN_POSITIVE is one unit;                                       *)
(*  - byte sizes are small integers;                                       *)
(*  - an item is a byte string (a sequence of naturals), hashed through    *)
(*    its Digest.                                                          *)
(***************************************************************************)
EXTENDS Integers, Sequences, FiniteSets, TLC

\* ------------------------------------------------------------ bounds
\* Items are the one-byte strings <<1>> .. <<NumItems>>.
NumItems == 4
\* configs::BLOOM_NUM_FILTERS_PER_OBJECT_LIMIT_MAX (Fmax), scaled down.
FMax == 3
\* configs::BLOOM_MEMORY_LIMIT_PER_OBJECT (Mmax), scaled down: two filters fit.
MemoryLimit == 24
\* configs::BLOOM_MEMORY_LIMIT_PER_FILTER, scaled down.
MemoryLimitPerFilter == 10
\* i64::MAX, scaled down: checked_mul fails above it.
I64Max == 3
\* Allocation attempts after which the host starts no further defrag pass.
MaxDefragAllocs == 6
\* A configured memory limit below the size of the smallest object.
LowMemoryLimit == 14
\* A configured memory limit that several filters fit.
HighMemoryLimit == 64
\* More filters than the error rate lets any planned object have.
MaxPlanned == 4

\* ------------------------------------------------------------ program constants
FIXED_SEED == 0
BLOOM_OBJECT_VERSION == 1
BLOOM_FILTER_TYPE_ENCODING_VERSION == 1
\* 1.0 in fixed-point units; BLOOM_FP_RATE_MAX and BLOOM_TIGHTENING_RATIO_MAX.
FP_ONE == 16
\* BLOOM_FP_RATE_MIN and BLOOM_TIGHTENING_RATIO_MIN.
FP_ZERO == 0
\* f64::MIN_POSITIVE in fixed-point units.
F64_MIN_POSITIVE == 1
\* u32::MAX scaled down: BLOOM_EXPANSION_MAX, and the largest value a u32 field holds.
BLOOM_EXPANSION_MAX == 2
BLOOM_EXPANSION_MIN == 1
BLOOM_CAPACITY_MIN == 1
\* std::mem::size_of of the four structures, in model units.
SIZE_OF_BLOOM_OBJECT == 6
SIZE_OF_BOX == 1
SIZE_OF_BLOOM_FILTER == 3
SIZE_OF_BLOOM == 4
\* Number of hash probes of a bloomfilter::Bloom.
K_NUM == 2

VARIABLES
    obj,           \* the value under the key: <<>> or <<BloomObject>>
    copy,          \* the value under a second key (COPY, BF.LOAD or snapshot load)
    added,         \* items for which add_item on obj returned 1
    last,          \* the last operation: [op, input, ret, validate, reply, events]
    metrics,       \* the process-wide counters of src/metrics.rs
    memory_limit,  \* configs::BLOOM_MEMORY_LIMIT_PER_OBJECT
    replica,       \* the replica's value under the key
    repl,          \* commands emitted to the replica and not yet applied
    defrag,        \* the host's defrag state of the key, BLOOM_DEFRAG and the counters
    defaults       \* configs::BLOOM_FP_RATE_F64 and BLOOM_TIGHTENING_F64 of the primary

vars == <<obj, copy, added, last, metrics, memory_limit, replica, repl, defrag, defaults>>

\* BLOOM_FP_RATE_DEFAULT and TIGHTENING_RATIO_DEFAULT parsed at start, scaled to a half.
DefaultFloats == [fp_rate |-> 8, tightening_ratio |-> 8]

Items == {<<i>> : i \in 1..NumItems}
\* Seeds a random draw can give: never FIXED_SEED (utils.rs test_seed).
RandomSeeds == {1}
Seeds == {FIXED_SEED} \cup RandomSeeds

Max(a, b) == IF a >= b THEN a ELSE b
Min(a, b) == IF a <= b THEN a ELSE b

RECURSIVE Pow2(_)
Pow2(n) == IF n <= 0 THEN 1 ELSE 2 * Pow2(n - 1)

RECURSIVE SumSeq(_)
SumSeq(s) == IF s = <<>> THEN 0 ELSE Head(s) + SumSeq(Tail(s))

\* ------------------------------------------------------------ bit-filter primitive
\* Stand-in for the SipHash of an item: the sum of its bytes.
Digest(item) == SumSeq(item)

\* Double hashing keyed by the seed: probe i of item in a bitmap of m bytes.
BitPositions(item, seed, m, k) ==
    LET h1 == 3 * Digest(item) + seed
        h2 == Digest(item) + 1 + 2 * seed
    IN  {(h1 + i * h2) % (8 * m) : i \in 0..(k - 1)}

\* Least j with x * 2^j >= FP_ONE: log2(1/p), rounded up.
RECURSIVE Log2Inv(_)
Log2Inv(x) == IF x <= 0 \/ x >= FP_ONE THEN 0 ELSE 1 + Log2Inv(2 * x)

\* bloomfilter::Bloom::compute_bitmap_size: bytes of the bitmap for (capacity, fp_rate).
compute_bitmap_size(capacity, fp_rate) ==
    (capacity * 2 * Log2Inv(fp_rate) + 7) \div 8

\* BloomFilter::compute_size
FilterComputeSize(capacity, fp_rate) ==
    SIZE_OF_BLOOM_FILTER + SIZE_OF_BLOOM + compute_bitmap_size(capacity, fp_rate)

\* BloomFilter::number_of_bytes: bloom.len() is the number of bits, 8 * m.
number_of_bytes(f) == SIZE_OF_BLOOM_FILTER + SIZE_OF_BLOOM + ((8 * f.m) \div 8)

\* BloomFilter::check
check(f, item) == BitPositions(item, f.seed, f.m, f.k) \subseteq f.bits

\* Faulty set: no bit is set.
SetNoBit(f, item) == f

\* BloomFilter::set
set(f, item) == [f EXCEPT !.bits = @ \cup BitPositions(item, f.seed, f.m, f.k)]

\* ------------------------------------------------------------ metrics
ZeroMetrics ==
    [num_objects |-> 0, total_memory |-> 0, num_filters |-> 0,
     num_items |-> 0, capacity |-> 0]

\* The counters are AtomicU64: fetch_add and fetch_sub wrap around. The width is
\* scaled as the sizes are.
AtomicU64Modulus == 65536

WrapU64(x) == x % AtomicU64Modulus

\* BloomFilter::bloom_filter_incr_metrics_on_new_create
bloom_filter_incr_metrics_on_new_create(mt, f) ==
    [mt EXCEPT !.num_filters = WrapU64(@ + 1),
               !.total_memory = WrapU64(@ + number_of_bytes(f)),
               !.capacity = WrapU64(@ + f.capacity)]

\* Drop for BloomFilter
DropBloomFilter(mt, f) ==
    [mt EXCEPT !.num_filters = WrapU64(@ - 1),
               !.total_memory = WrapU64(@ - number_of_bytes(f)),
               !.num_items = WrapU64(@ - f.num_items),
               !.capacity = WrapU64(@ - f.capacity)]

RECURSIVE DropFilters(_, _)
DropFilters(mt, fs) ==
    IF fs = <<>> THEN mt ELSE DropFilters(DropBloomFilter(mt, Head(fs)), Tail(fs))

\* BloomObject::compute_size
compute_size(filters_vec_capacity) ==
    SIZE_OF_BLOOM_OBJECT + filters_vec_capacity * SIZE_OF_BOX

\* BloomObject::bloom_object_memory_usage
bloom_object_memory_usage(o) == compute_size(o.vec_cap)

\* BloomObject::bloom_object_incr_metrics_on_new_create
bloom_object_incr_metrics_on_new_create(mt, o) ==
    [mt EXCEPT !.num_objects = WrapU64(@ + 1),
               !.total_memory = WrapU64(@ + bloom_object_memory_usage(o))]

\* Drop for BloomObject, then the drop of its filters.
DropBloomObject(mt, o) ==
    DropFilters([mt EXCEPT !.total_memory = WrapU64(@ - bloom_object_memory_usage(o)),
                           !.num_objects = WrapU64(@ - 1)],
                o.filters)

\* ------------------------------------------------------------ filters
\* BloomFilter::with_fixed_seed (and with_random_seed, the seed being the draw).
with_fixed_seed(fp_rate, capacity, seed) ==
    [bits |-> {}, m |-> compute_bitmap_size(capacity, fp_rate), k |-> K_NUM,
     seed |-> seed, num_items |-> 0, capacity |-> capacity]

\* ------------------------------------------------------------ bloom object
RECURSIVE SumField(_, _)
SumField(fs, which) ==
    IF fs = <<>> THEN 0
    ELSE (IF which = "n" THEN Head(fs).num_items ELSE
          IF which = "c" THEN Head(fs).capacity ELSE number_of_bytes(Head(fs)))
         + SumField(Tail(fs), which)

\* BloomObject::memory_usage
memory_usage(o) == bloom_object_memory_usage(o) + SumField(o.filters, "bytes")

\* BloomObject::cardinality
cardinality(o) == SumField(o.filters, "n")

\* BloomObject::capacity
capacity(o) == SumField(o.filters, "c")

\* BloomObject::num_filters
num_filters(o) == Len(o.filters)

\* Faulty validate_size: every size passes.
ValidateAnySize(bytes) == TRUE

\* BloomObject::validate_size
validate_size(bytes) == ~(bytes > memory_limit)

\* Faulty validate_size_before_create: the pointer to the filter is not counted.
ValidateWithoutPointer(cap, fp_rate) ==
    validate_size(SIZE_OF_BLOOM_OBJECT + FilterComputeSize(cap, fp_rate))

\* BloomObject::validate_size_before_create
validate_size_before_create(cap, fp_rate) ==
    validate_size(SIZE_OF_BLOOM_OBJECT + SIZE_OF_BOX + FilterComputeSize(cap, fp_rate))

\* BloomObject::validate_size_before_scaling
validate_size_before_scaling(o, cap, fp_rate) ==
    validate_size(memory_usage(o) + FilterComputeSize(cap, fp_rate))

\* BloomObject::item_exists
item_exists(o, item) == \E i \in 1..Len(o.filters) : check(o.filters[i], item)

\* f64 powi in fixed point.
RECURSIVE Powi(_, _)
Powi(r, n) == IF n <= 0 THEN FP_ONE ELSE (Powi(r, n - 1) * r) \div FP_ONE

\* BloomObject::calculate_fp_rate: [ok, rate]
calculate_fp_rate(fp_rate, n, tightening_ratio) ==
    LET x == (fp_rate * Powi(tightening_ratio, n)) \div FP_ONE
    IN  IF x > F64_MIN_POSITIVE THEN [ok |-> TRUE, rate |-> x]
        ELSE [ok |-> FALSE, rate |-> 0]

\* Vec::push growth: amortized doubling with a least non-zero capacity of 4
\* (utils.rs test_vec_capacity_matches_size_calculations).
VecCapAfterPush(len, cap) == IF len < cap THEN cap ELSE Max(4, Max(2 * cap, len + 1))

\* The end of new_reserved: the object around its first filter f.
ReservedWith(mt, f, fp_rate, tightening_ratio, expansion, is_random) ==
    LET o == [expansion |-> expansion, fp_rate |-> fp_rate,
              tightening_ratio |-> tightening_ratio, is_seed_random |-> is_random,
              filters |-> <<f>>, vec_cap |-> 1]
    IN  [ret |-> "Ok", obj |-> <<o>>,
         metrics |-> bloom_object_incr_metrics_on_new_create(
                         bloom_filter_incr_metrics_on_new_create(mt, f), o)]

\* BloomObject::new_reserved: [ret, obj, metrics]; seed is the pair
\* (seed, is_random), a random draw having been resolved to its value.
new_reserved(mt, fp_rate, tightening_ratio, cap, expansion, seed, is_random, validate_size_limit) ==
    IF validate_size_limit /\ ~validate_size_before_create(cap, fp_rate)
    THEN [ret |-> "ExceedsMaxBloomSize", obj |-> <<>>, metrics |-> mt]
    ELSE ReservedWith(mt, with_fixed_seed(fp_rate, cap, seed), fp_rate,
                      tightening_ratio, expansion, is_random)

\* BloomObject::seed
seed(o) == o.filters[1].seed

\* Faulty scale-out: a full object reports the filter-count cap, whatever E is.
ScaleOutAlwaysAtCap(mt, o, item, validate_size_limit) ==
    [ret |-> "MaxNumScalingFilters", obj |-> o, metrics |-> mt]

\* The end of the scale-out: o2 is o with the new filter, mt1 counts the filter.
ScaledOut(mt1, o, o2) ==
    [ret |-> "Ok1", obj |-> o2,
     metrics |-> [mt1 EXCEPT
         !.total_memory =
             WrapU64(@ + bloom_object_memory_usage(o2) - bloom_object_memory_usage(o)),
         !.num_items = WrapU64(@ + 1)]]

\* Faulty push: the new filter takes the item but does not count it.
PushFilterUncounted(mt, o, item, empty) ==
    ScaledOut(bloom_filter_incr_metrics_on_new_create(mt, empty), o,
              [o EXCEPT !.filters = Append(@, set(empty, item)),
                        !.vec_cap = VecCapAfterPush(Len(o.filters), @)])

\* Faulty push: the new filter goes in front of the others.
PushFilterInFront(mt, o, item, empty) ==
    ScaledOut(bloom_filter_incr_metrics_on_new_create(mt, empty), o,
              [o EXCEPT !.filters = <<[set(empty, item) EXCEPT !.num_items = @ + 1]>> \o @,
                        !.vec_cap = VecCapAfterPush(Len(o.filters), @)])

\* The new filter takes the item and is pushed.
PushFilter(mt, o, item, empty) ==
    ScaledOut(bloom_filter_incr_metrics_on_new_create(mt, empty), o,
              [o EXCEPT !.filters = Append(@, [set(empty, item) EXCEPT !.num_items = @ + 1]),
                        !.vec_cap = VecCapAfterPush(Len(o.filters), @)])

\* Faulty scale-out: the new filter takes the capacity of the last one, whatever
\* the expansion is.
ScaleOutSameCapacity(mt, o, item, validate_size_limit, fp) ==
    IF o.expansion = 0
    THEN [ret |-> "NonScalingFilterFull", obj |-> o, metrics |-> mt]
    ELSE IF Len(o.filters) = FMax
    THEN [ret |-> "MaxNumScalingFilters", obj |-> o, metrics |-> mt]
    ELSE PushFilter(mt, o, item,
                    with_fixed_seed(fp.rate, o.filters[Len(o.filters)].capacity, seed(o)))

\* Faulty scale-out: the capacity is computed before the rate.
ScaleOutCapacityFirst(mt, o, item, validate_size_limit, fp) ==
    LET nf == Len(o.filters)
        new_capacity == o.filters[nf].capacity * o.expansion
    IN  IF o.expansion = 0
        THEN [ret |-> "NonScalingFilterFull", obj |-> o, metrics |-> mt]
        ELSE IF nf = FMax
        THEN [ret |-> "MaxNumScalingFilters", obj |-> o, metrics |-> mt]
        ELSE IF new_capacity > I64Max
        THEN [ret |-> "BadCapacity", obj |-> o, metrics |-> mt]
        ELSE IF ~fp.ok
        THEN [ret |-> "FalsePositiveReachesZero", obj |-> o, metrics |-> mt]
        ELSE IF validate_size_limit
                /\ ~validate_size_before_scaling(o, new_capacity, fp.rate)
        THEN [ret |-> "ExceedsMaxBloomSize", obj |-> o, metrics |-> mt]
        ELSE PushFilter(mt, o, item, with_fixed_seed(fp.rate, new_capacity, seed(o)))

\* Faulty scale-out: the new filter is built, and counted, before the size check.
ScaleOutBuildsFirst(mt, o, item, validate_size_limit, fp) ==
    LET nf == Len(o.filters)
        new_capacity == o.filters[nf].capacity * o.expansion
    IN  IF o.expansion = 0
        THEN [ret |-> "NonScalingFilterFull", obj |-> o, metrics |-> mt]
        ELSE IF nf = FMax
        THEN [ret |-> "MaxNumScalingFilters", obj |-> o, metrics |-> mt]
        ELSE IF ~fp.ok
        THEN [ret |-> "FalsePositiveReachesZero", obj |-> o, metrics |-> mt]
        ELSE IF new_capacity > I64Max
        THEN [ret |-> "BadCapacity", obj |-> o, metrics |-> mt]
        ELSE IF validate_size_limit
                /\ ~validate_size_before_scaling(o, new_capacity, fp.rate)
        THEN [ret |-> "ExceedsMaxBloomSize", obj |-> o,
              metrics |-> bloom_filter_incr_metrics_on_new_create(
                              mt, with_fixed_seed(fp.rate, new_capacity, seed(o)))]
        ELSE PushFilter(mt, o, item, with_fixed_seed(fp.rate, new_capacity, seed(o)))

\* The checks of the scale-out, fp being the result of calculate_fp_rate.
ScaleOutChecks(mt, o, item, validate_size_limit, fp) ==
    LET nf == Len(o.filters)
        new_capacity == o.filters[nf].capacity * o.expansion
    IN  IF o.expansion = 0
        THEN [ret |-> "NonScalingFilterFull", obj |-> o, metrics |-> mt]
        ELSE IF nf = FMax
        THEN [ret |-> "MaxNumScalingFilters", obj |-> o, metrics |-> mt]
        ELSE IF ~fp.ok
        THEN [ret |-> "FalsePositiveReachesZero", obj |-> o, metrics |-> mt]
        ELSE IF new_capacity > I64Max
        THEN [ret |-> "BadCapacity", obj |-> o, metrics |-> mt]
        ELSE IF validate_size_limit
                /\ ~validate_size_before_scaling(o, new_capacity, fp.rate)
        THEN [ret |-> "ExceedsMaxBloomSize", obj |-> o, metrics |-> mt]
        ELSE PushFilter(mt, o, item, with_fixed_seed(fp.rate, new_capacity, seed(o)))

\* add_item when the item is new and the last filter is full: scale out.
add_item_scale_out(mt, o, item, validate_size_limit) ==
    ScaleOutChecks(mt, o, item, validate_size_limit,
                   calculate_fp_rate(o.fp_rate, Len(o.filters), o.tightening_ratio))

\* Faulty add_item: the item is written to the last filter without a lookup.
AddItemWithoutLookup(mt, o, item, validate_size_limit) ==
    LET nf == Len(o.filters)
    IN  [ret |-> "Ok1",
         obj |-> [o EXCEPT !.filters[nf] =
                     [set(o.filters[nf], item) EXCEPT !.num_items = @ + 1]],
         metrics |-> [mt EXCEPT !.num_items = WrapU64(@ + 1)]]

\* BloomObject::add_item: [ret, obj, metrics]
add_item(mt, o, item, validate_size_limit) ==
    IF item_exists(o, item)
    THEN [ret |-> "Ok0", obj |-> o, metrics |-> mt]
    ELSE IF o.filters = <<>>
    THEN [ret |-> "Ok0", obj |-> o, metrics |-> mt]
    ELSE LET nf == Len(o.filters)
             filter == o.filters[nf]
         IN  IF filter.num_items < filter.capacity
             THEN [ret |-> "Ok1",
                   obj |-> [o EXCEPT !.filters[nf] =
                               [set(filter, item) EXCEPT !.num_items = @ + 1]],
                   metrics |-> [mt EXCEPT !.num_items = WrapU64(@ + 1)]]
             ELSE add_item_scale_out(mt, o, item, validate_size_limit)

\* BloomFilter::from_existing: the filter rebuilt from dumped data, and the metrics.
FilterFromExisting(mt, f) ==
    [bloom_filter_incr_metrics_on_new_create(mt, f) EXCEPT
         !.num_items = WrapU64(@ + f.num_items)]

RECURSIVE CopyFiltersMetrics(_, _)
CopyFiltersMetrics(mt, fs) ==
    IF fs = <<>> THEN mt
    ELSE CopyFiltersMetrics(FilterFromExisting(mt, Head(fs)), Tail(fs))

\* ------------------------------------------------------------ codec
\* One byte of a bitmap: bits 8j .. 8j+7.
RECURSIVE ByteOf(_, _, _)
ByteOf(bits, j, i) ==
    IF i > 7 THEN 0
    ELSE (IF (8 * j + i) \in bits THEN Pow2(i) ELSE 0) + ByteOf(bits, j, i + 1)

\* Bloom::to_bytes / as_slice: bitmap length, probes, seed, then the bitmap bytes.
BloomToBytes(f) == <<f.m, f.k, f.seed>> \o [j \in 1..f.m |-> ByteOf(f.bits, j - 1, 0)]

\* serde of one BloomFilter: bloom, num_items, capacity.
SerializeFilter(f) == BloomToBytes(f) \o <<f.num_items, f.capacity>>

RECURSIVE SerializeFilters(_)
SerializeFilters(fs) ==
    IF fs = <<>> THEN <<>> ELSE SerializeFilter(Head(fs)) \o SerializeFilters(Tail(fs))

\* bincode::serialize of a BloomObject: the fields in declaration order.
BincodeSerialize(o) ==
    <<o.expansion, o.fp_rate, o.tightening_ratio,
      IF o.is_seed_random THEN 1 ELSE 0, Len(o.filters)>>
    \o SerializeFilters(o.filters)

\* BloomObject::encode_object
encode_object(o) == <<BLOOM_OBJECT_VERSION>> \o BincodeSerialize(o)

\* Bloom::from_slice / from_bytes at position pos: [ok, bloom fields, next position].
BloomFromBytes(bytes, pos) ==
    IF pos + 2 > Len(bytes) \/ bytes[pos] < 1 \/ bytes[pos + 1] < 1
       \/ pos + 2 + bytes[pos] > Len(bytes)
    THEN [ok |-> FALSE, m |-> 0, k |-> 0, seed |-> 0, bits |-> {}, next |-> pos]
    ELSE LET m == bytes[pos]
         IN  [ok |-> TRUE, m |-> m, k |-> bytes[pos + 1], seed |-> bytes[pos + 2],
              bits |-> {b \in 0..(8 * m - 1) :
                          (bytes[pos + 3 + (b \div 8)] \div Pow2(b % 8)) % 2 = 1},
              next |-> pos + 3 + m]

\* A filter in front of the filters read after it; when a later one fails, the
\* filters are those built before the failure.
PrependFilter(f, rest) == [ok |-> rest.ok, filters |-> <<f>> \o rest.filters]

\* serde of `count` filters read from position pos: [ok, filters]; b is the bloom
\* read at the position.
RECURSIVE DeserializeFilters(_, _, _)
RECURSIVE DeserializeFrom(_, _, _)
DeserializeFrom(bytes, b, count) ==
    IF ~b.ok \/ b.next + 1 > Len(bytes)
    THEN [ok |-> FALSE, filters |-> <<>>]
    ELSE PrependFilter([bits |-> b.bits, m |-> b.m, k |-> b.k, seed |-> b.seed,
                        num_items |-> bytes[b.next], capacity |-> bytes[b.next + 1]],
                       DeserializeFilters(bytes, b.next + 2, count - 1))

DeserializeFilters(bytes, pos, count) ==
    IF count = 0 THEN [ok |-> TRUE, filters |-> <<>>]
    ELSE DeserializeFrom(bytes, BloomFromBytes(bytes, pos), count)

\* The tuple bincode yields, fs being the deserialized filters.
BincodeValues(body, fs) ==
    IF ~fs.ok THEN [ok |-> FALSE, filters |-> fs.filters]
    ELSE [ok |-> TRUE, expansion |-> body[1], fp_rate |-> body[2],
          tightening_ratio |-> body[3], is_seed_random |-> (body[4] = 1),
          filters |-> fs.filters]

\* bincode::deserialize::<(u32, f64, f64, bool, Vec<Box<BloomFilter>>)>; trailing
\* bytes are allowed, a bool byte is 0 or 1.
BincodeDeserialize(body) ==
    IF Len(body) < 5 \/ body[4] \notin {0, 1} \/ body[5] < 0
    THEN [ok |-> FALSE, filters |-> <<>>]
    ELSE BincodeValues(body, DeserializeFilters(body, 6, body[5]))

\* The range checks of decode_object: the error of the first that fails, or "".
DecodeRangeError(item) ==
    IF ~(item.expansion \in 0..BLOOM_EXPANSION_MAX) THEN "BadExpansion"
    ELSE IF ~(item.fp_rate > FP_ZERO /\ item.fp_rate < FP_ONE) THEN "ErrorRateRange"
    ELSE IF ~(item.tightening_ratio > FP_ZERO /\ item.tightening_ratio < FP_ONE)
    THEN "ErrorRateRange"
    ELSE IF Len(item.filters) >= FMax THEN "MaxNumScalingFilters"
    ELSE ""

\* decode_object after the metrics of every deserialized filter were added (mt1):
\* an early return drops the values, and with them every filter.
DecodeValidate(mt1, item, validate_size_limit) ==
    IF DecodeRangeError(item) # ""
    THEN [ret |-> DecodeRangeError(item), obj |-> <<>>,
          metrics |-> DropFilters(mt1, item.filters)]
    ELSE IF validate_size_limit /\ ~validate_size(memory_usage(item))
    THEN [ret |-> "ExceedsMaxBloomSize", obj |-> <<>>,
          metrics |-> DropBloomObject(
                          bloom_object_incr_metrics_on_new_create(mt1, item), item)]
    ELSE [ret |-> "Ok", obj |-> <<item>>,
          metrics |-> bloom_object_incr_metrics_on_new_create(mt1, item)]

\* decode_object on the result of bincode. When bincode fails inside the vector,
\* the filters it had built are dropped, and Drop for BloomFilter takes from the
\* counters what decode_object has not yet added.
DecodeValues(mt, values, validate_size_limit) ==
    IF ~values.ok
    THEN [ret |-> "DecodeBloomFilterFailed", obj |-> <<>>,
          metrics |-> DropFilters(mt, values.filters)]
    ELSE DecodeValidate(CopyFiltersMetrics(mt, values.filters),
                        [expansion |-> values.expansion, fp_rate |-> values.fp_rate,
                         tightening_ratio |-> values.tightening_ratio,
                         is_seed_random |-> values.is_seed_random,
                         filters |-> values.filters,
                         vec_cap |-> Len(values.filters)],
                        validate_size_limit)

\* BloomObject::decode_object: [ret, obj, metrics]
decode_object(mt, decoded_bytes, validate_size_limit) ==
    IF decoded_bytes = <<>>
    THEN [ret |-> "DecodeBloomFilterFailed", obj |-> <<>>, metrics |-> mt]
    ELSE IF decoded_bytes[1] # 1
    THEN [ret |-> "DecodeUnsupportedVersion", obj |-> <<>>, metrics |-> mt]
    ELSE DecodeValues(mt, BincodeDeserialize(Tail(decoded_bytes)), validate_size_limit)

\* BloomFilter::create_copy_from: from_existing on the bytes of the bloom.
FilterCreateCopyFrom(bf) ==
    LET b == BloomFromBytes(BloomToBytes(bf), 1)
    IN  [bits |-> b.bits, m |-> b.m, k |-> b.k, seed |-> b.seed,
         num_items |-> bf.num_items, capacity |-> bf.capacity]

\* Faulty create_copy_from: the filters of the copy start with no item counted.
CreateCopyUncounted(mt, from_bf) ==
    [obj |-> <<[from_bf EXCEPT !.filters =
                   [i \in 1..Len(from_bf.filters) |->
                       [FilterCreateCopyFrom(from_bf.filters[i]) EXCEPT !.num_items = 0]]]>>,
     metrics |-> bloom_object_incr_metrics_on_new_create(
                     CopyFiltersMetrics(mt, from_bf.filters), from_bf)]

\* BloomObject::create_copy_from: [obj, metrics]; the vector is allocated with
\* the capacity of the source's vector.
create_copy_from(mt, from_bf) ==
    LET new_copy == [from_bf EXCEPT !.filters =
                        [i \in 1..Len(from_bf.filters) |->
                            FilterCreateCopyFrom(from_bf.filters[i])]]
    IN  [obj |-> <<new_copy>>,
         metrics |-> bloom_object_incr_metrics_on_new_create(
                         CopyFiltersMetrics(mt, from_bf.filters), new_copy)]

\* ------------------------------------------------------------ snapshot stream
\* bloom_rdb_save of one filter: bitmap buffer, capacity, and num_items when last.
RECURSIVE RdbSaveFilters(_)
RdbSaveFilters(fs) ==
    IF fs = <<>> THEN <<>>
    ELSE BloomToBytes(Head(fs)) \o <<Head(fs).capacity>>
         \o (IF Tail(fs) = <<>> THEN <<Head(fs).num_items>> ELSE <<>>)
         \o RdbSaveFilters(Tail(fs))

\* bloom_rdb_save
bloom_rdb_save(v) ==
    <<num_filters(v), v.expansion, v.fp_rate, v.tightening_ratio,
      IF v.is_seed_random THEN 1 ELSE 0>>
    \o RdbSaveFilters(v.filters)

\* BloomFilter::validate_size of the version load_from_rdb was written against.
BloomFilterValidateSize(cap, fp_rate) ==
    ~(FilterComputeSize(cap, fp_rate) > MemoryLimitPerFilter)

\* One round of the loop of load_from_rdb: filter i, its bitmap buffer read.
RECURSIVE LoadFilters(_, _, _, _, _, _, _)
RECURSIVE LoadFilterFrom(_, _, _, _, _, _, _, _)
LoadFilterFrom(rdb, bitmap, new_fp_rate, i, n_filters, fp_rate, tightening_ratio, is_seed_random) ==
    LET is_last == (i = n_filters - 1) IN
    IF ~bitmap.ok \/ bitmap.next > Len(rdb)
       \/ ~new_fp_rate.ok
       \/ ~BloomFilterValidateSize(rdb[bitmap.next], new_fp_rate.rate)
       \/ (is_last /\ bitmap.next + 1 > Len(rdb))
       \/ (~is_seed_random /\ bitmap.seed # FIXED_SEED)
    THEN [ok |-> FALSE, filters |-> <<>>]
    ELSE PrependFilter([bits |-> bitmap.bits, m |-> bitmap.m, k |-> bitmap.k,
                        seed |-> bitmap.seed,
                        num_items |-> IF is_last THEN rdb[bitmap.next + 1]
                                      ELSE rdb[bitmap.next],
                        capacity |-> rdb[bitmap.next]],
                       LoadFilters(rdb, bitmap.next + (IF is_last THEN 2 ELSE 1),
                                   i + 1, n_filters, fp_rate, tightening_ratio,
                                   is_seed_random))

\* The loop of load_from_rdb from filter i (0-based): [ok, filters].
LoadFilters(rdb, pos, i, n_filters, fp_rate, tightening_ratio, is_seed_random) ==
    IF i >= n_filters THEN [ok |-> TRUE, filters |-> <<>>]
    ELSE LoadFilterFrom(rdb, BloomFromBytes(rdb, pos),
                        calculate_fp_rate(fp_rate, n_filters, tightening_ratio),
                        i, n_filters, fp_rate, tightening_ratio, is_seed_random)

\* The vector of load_from_rdb: Vec::with_capacity(1), then one push per filter.
RECURSIVE VecCapAfterPushes(_, _, _)
VecCapAfterPushes(len, cap, pushes) ==
    IF pushes = 0 THEN cap
    ELSE VecCapAfterPushes(len + 1, VecCapAfterPush(len, cap), pushes - 1)

\* The end of load_from_rdb: BloomFilterType::from_existing on the loaded filters fs.
LoadedObject(mt, rdb, fs) ==
    LET item == [expansion |-> rdb[2], fp_rate |-> rdb[3], tightening_ratio |-> rdb[4],
                 is_seed_random |-> (rdb[5] = 1), filters |-> fs.filters,
                 vec_cap |-> VecCapAfterPushes(0, 1, Len(fs.filters))]
    IN  IF ~fs.ok
        THEN [ret |-> "None", obj |-> <<>>, metrics |-> mt]
        ELSE [ret |-> "Some", obj |-> <<item>>,
              metrics |-> bloom_object_incr_metrics_on_new_create(
                              CopyFiltersMetrics(mt, fs.filters), item)]

\* ValkeyDataType::load_from_rdb: [ret, obj, metrics]. The filters built before a
\* failing step are dropped again, so a failed load leaves the metrics as they were.
load_from_rdb(mt, rdb, encver) ==
    IF encver > BLOOM_FILTER_TYPE_ENCODING_VERSION \/ Len(rdb) < 5
    THEN [ret |-> "None", obj |-> <<>>, metrics |-> mt]
    ELSE LoadedObject(mt, rdb, LoadFilters(rdb, 6, 0, rdb[1], rdb[3], rdb[4], rdb[5] = 1))

\* ------------------------------------------------------------ defrag
\* configs::BLOOM_DEFRAG_DEAFULT
BLOOM_DEFRAG_DEFAULT == TRUE

\* The bloomfilter::Bloom inside a filter, and mem::replace of it.
BloomOf(f) == [m |-> f.m, k |-> f.k, seed |-> f.seed, bits |-> f.bits]
WithBloom(f, b) == [f EXCEPT !.m = b.m, !.k = b.k, !.seed = b.seed, !.bits = b.bits]

\* The spare Bloom swapped in while the filter's own is being moved: Bloom::new(1, 1).
DEFRAG_BLOOM_FILTER == [m |-> 1, k |-> 1, seed |-> FIXED_SEED, bits |-> {}]

\* What an invocation called: alloc, should_stop_defrag, get_cursor and set_cursor,
\* and of the alloc calls those for the filter vector and for the object.
NoCalls ==
    [alloc |-> 0, should_stop |-> 0, get_cursor |-> 0, set_cursor |-> 0,
     vec |-> 0, object |-> 0]

\* The defrag state of a key that no pass has touched: BLOOM_DEFRAG (enabled), the
\* cursor the host keeps between the invocations of a pass (in_pass: the last
\* invocation returned 1), the filter indices the pass has processed, whether the
\* last invocation resumed from a saved cursor, BLOOM_DEFRAG_HITS / _MISSES, the
\* number of null answers of alloc so far, the slot DEFRAG_BLOOM_FILTER (empty or
\* one Bloom), the calls of the last invocation, whether it changed *value, and
\* num_filters as the first invocation of the pass read it.
NoDefrag(enabled) ==
    [enabled |-> enabled, in_pass |-> FALSE, cursor |-> 0, visited |-> <<>>,
     resumed |-> FALSE, hits |-> 0, misses |-> 0, nulls |-> 0,
     spare |-> <<DEFRAG_BLOOM_FILTER>>, calls |-> NoCalls, relocated |-> FALSE,
     pass_len |-> 0]

\* Faulty reinsertion: the filter goes to the end of the vector.
InsertAtEnd(fs, i, f) == fs \o <<f>>

\* Vec::remove and Vec::insert at a 0-based index.
RemoveAt(fs, i) == SubSeq(fs, 1, i) \o SubSeq(fs, i + 2, Len(fs))
InsertAt(fs, i, f) == SubSeq(fs, 1, i) \o <<f>> \o SubSeq(fs, i + 1, Len(fs))

\* Faulty round: the spare is left in the filter, the filter's own Bloom in the slot.
DefragFilterKeepsSpare(f, spare) ==
    [filter |-> WithBloom(f, Head(spare)), spare |-> <<BloomOf(f)>>]

\* Faulty round: the slot is not filled again.
DefragFilterSpareTaken(f, spare) == [filter |-> f, spare |-> <<>>]

\* One round of the loop on a removed filter: the spare is taken out of its slot
\* and swapped in, the filter's own Bloom is moved
\* (realloc_large_heap_allocated_objects keeps its content) and swapped back,
\* and the placeholder that comes out fills the slot; the same on both branches
\* of the inner alloc.
DefragFilter(f, spare) ==
    LET inner_bloom == BloomOf(f)
        swapped == WithBloom(f, Head(spare))
        placeholder_bloom == BloomOf(swapped)
    IN  [filter |-> WithBloom(swapped, inner_bloom), spare |-> <<placeholder_bloom>>]

Visit(c, r) == [r EXCEPT !.visited = <<c>> \o @]

\* Faulty loop: no filter is processed.
DefragLoopStuck(fs, cursor, k, spare) ==
    [filters |-> fs, cursor |-> cursor, visited |-> <<>>, spare |-> spare, panic |-> FALSE]

\* The while loop of bloom_defrag: should_stop answers false k times, then true.
\* The take of an empty slot panics, with the filter out of the vector.
RECURSIVE DefragLoop(_, _, _, _)
DefragLoop(fs, cursor, k, spare) ==
    IF k = 0 \/ cursor >= Len(fs)
    THEN [filters |-> fs, cursor |-> cursor, visited |-> <<>>, spare |-> spare,
          panic |-> FALSE]
    ELSE IF spare = <<>>
    THEN [filters |-> RemoveAt(fs, cursor), cursor |-> cursor, visited |-> <<>>,
          spare |-> spare, panic |-> TRUE]
    ELSE LET r == DefragFilter(fs[cursor + 1], spare)
         IN  Visit(cursor,
                   DefragLoop(InsertAt(RemoveAt(fs, cursor), cursor, r.filter),
                              cursor + 1, k - 1, r.spare))

\* Faulty cursor: every invocation starts at 0.
DefragCursorZero(d) == 0

\* get_cursor().unwrap_or(0): the saved cursor inside a pass, 0 at its start.
DefragCursor(d) == IF d.in_pass THEN d.cursor ELSE 0

\* bloom_defrag after its loop (r): h of the loop's allocations were moved, and
\* vec_moved and moved say whether the filter vector and the object were. A null
\* answer for the filter vector counts as a hit.
DefragAfterLoop(d, o, r, h, vec_moved, moved) ==
    LET c0 == DefragCursor(d)
        seen == (IF d.in_pass THEN d.visited ELSE <<>>) \o r.visited
        steps == r.cursor - c0
        tried == 3 * steps
        looped == [d EXCEPT !.cursor = r.cursor, !.visited = seen, !.resumed = (c0 > 0),
                            !.spare = r.spare, !.hits = @ + h, !.misses = @ + (tried - h),
                            !.nulls = @ + (tried - h),
                            !.pass_len = IF d.in_pass THEN @ ELSE Len(o.filters)]
    IN  IF r.panic
        THEN [ret |-> "Panic", obj |-> [o EXCEPT !.filters = r.filters],
              defrag |-> [d EXCEPT !.spare = r.spare]]
        ELSE IF r.cursor < Len(o.filters)
        THEN [ret |-> "MoreWork", obj |-> [o EXCEPT !.filters = r.filters],
              defrag |-> [looped EXCEPT
                  !.in_pass = TRUE, !.relocated = FALSE,
                  !.calls = [alloc |-> tried, should_stop |-> steps + 1,
                             get_cursor |-> 1, set_cursor |-> 1,
                             vec |-> 0, object |-> 0]]]
        ELSE [ret |-> "Done",
              obj |-> [o EXCEPT !.filters = r.filters, !.vec_cap = o.vec_cap],
              defrag |-> [looped EXCEPT
                  !.in_pass = FALSE, !.relocated = moved,
                  !.hits = @ + 1 + (IF moved THEN 1 ELSE 0),
                  !.misses = @ + (IF moved THEN 0 ELSE 1),
                  !.nulls = @ + (IF vec_moved THEN 0 ELSE 1) + (IF moved THEN 0 ELSE 1),
                  !.calls = [alloc |-> tried + 2, should_stop |-> steps + 1,
                             get_cursor |-> 1, set_cursor |-> 1,
                             vec |-> 1, object |-> 1]]]

\* Faulty bloom_defrag: BLOOM_DEFRAG is not looked at.
DefragThoughDisabled(d, o, k, h, vec_moved, moved) ==
    DefragAfterLoop(d, o, DefragLoop(o.filters, DefragCursor(d), k, d.spare),
                    h, vec_moved, moved)

\* bloom_defrag: [ret, obj, defrag]
bloom_defrag(d, o, k, h, vec_moved, moved) ==
    IF ~d.enabled
    THEN [ret |-> "Done", obj |-> o,
          defrag |-> [d EXCEPT !.calls = NoCalls, !.relocated = FALSE]]
    ELSE DefragAfterLoop(d, o, DefragLoop(o.filters, DefragCursor(d), k, d.spare),
                         h, vec_moved, moved)

\* ------------------------------------------------------------ scale planner
\* usize::next_power_of_two
RECURSIVE NextPowerOfTwo(_, _)
NextPowerOfTwo(n, p) == IF p >= n THEN p ELSE NextPowerOfTwo(n, 2 * p)

\* The vector capacity the planner assumes for an object that has n filters and
\* takes one more.
PlannedVecCapacity(n) == IF n = 0 THEN 1 ELSE NextPowerOfTwo(Max(4, n + 1), 1)

\* Result<i64, BloomError> as a returned value.
PlanOk(v) == [array |-> FALSE, ints |-> <<v>>, err |-> ""]
PlanErr(e) == [array |-> FALSE, ints |-> <<>>, err |-> e]

\* i64 addition that went past i64::MAX in a build without overflow checks.
WrapI64(x) == IF x > I64Max THEN x - 2 * (I64Max + 1) ELSE x

\* The loop of calculate_max_scaled_capacity; checked says whether the build
\* panics on arithmetic overflow (curr_total_capacity += curr_filter_capacity).
RECURSIVE MaxScaledLoop(_, _, _, _, _, _, _, _, _)
MaxScaledLoop(curr_filter_capacity, curr_total_capacity, curr_num_filters, filters_memory_usage, fp_rate, validate_scale_to, tightening_ratio, expansion, checked) ==
    IF ~(curr_total_capacity < validate_scale_to \/ validate_scale_to = -1)
    THEN PlanOk(curr_total_capacity)
    ELSE IF ~calculate_fp_rate(fp_rate, curr_num_filters, tightening_ratio).ok
    THEN IF validate_scale_to = -1 THEN PlanOk(curr_total_capacity)
         ELSE PlanErr("ValidateScaleToFalsePositiveInvalid")
    ELSE IF ~validate_size(
                 compute_size(PlannedVecCapacity(curr_num_filters))
                 + filters_memory_usage
                 + FilterComputeSize(curr_filter_capacity,
                       calculate_fp_rate(fp_rate, curr_num_filters, tightening_ratio).rate))
    THEN IF validate_scale_to = -1 THEN PlanOk(curr_total_capacity)
         ELSE PlanErr("ValidateScaleToExceedsMaxSize")
    ELSE IF checked /\ curr_total_capacity + curr_filter_capacity > I64Max
    THEN PlanErr("Panic")
    ELSE IF curr_filter_capacity * expansion > I64Max
    THEN PlanErr("BadCapacity")
    ELSE MaxScaledLoop(
             curr_filter_capacity * expansion,
             WrapI64(curr_total_capacity + curr_filter_capacity),
             curr_num_filters + 1,
             filters_memory_usage
             + FilterComputeSize(curr_filter_capacity,
                   calculate_fp_rate(fp_rate, curr_num_filters, tightening_ratio).rate),
             fp_rate, validate_scale_to, tightening_ratio, expansion, checked)

\* BloomObject::calculate_max_scaled_capacity
calculate_max_scaled_capacity(cap, fp_rate, validate_scale_to, tightening_ratio, expansion, checked) ==
    MaxScaledLoop(cap, 0, 0, 0, fp_rate, validate_scale_to, tightening_ratio, expansion, checked)

\* ------------------------------------------------------------ inputs
FpRates == {4, 8}
TighteningRatios == {8}
Capacities == {1, 2}
Expansions == 0..BLOOM_EXPANSION_MAX
MemoryLimits == {MemoryLimit}

\* Objects a crafted payload can describe: o itself, or o with one field changed.
CraftedObjects(o) ==
    {o}
    \cup {[o EXCEPT !.fp_rate = v] : v \in {FP_ZERO, FP_ONE}}
    \cup {[o EXCEPT !.tightening_ratio = v] : v \in {FP_ZERO, FP_ONE}}
    \cup {[o EXCEPT !.is_seed_random = ~@]}
    \cup {[o EXCEPT !.filters = <<>>]}
    \cup {[o EXCEPT !.filters[1].num_items = 0]}
    \cup {[o EXCEPT !.filters[Len(o.filters)].num_items = @ + 1]}
    \cup {[o EXCEPT !.filters[Len(o.filters)].seed = s] : s \in Seeds}

\* Payloads that are no encoding of an object: another version byte, cut inside
\* the header, empty.
MalformedBlobs(o) ==
    {<<BLOOM_OBJECT_VERSION + 1>> \o BincodeSerialize(o),
     <<BLOOM_OBJECT_VERSION, o.expansion, o.fp_rate>>, <<>>}

\* The value handle_bloom_add handed back: an array or a single value, the
\* integers it holds, and the error value that ends it ("" for none).
NoReply == [array |-> FALSE, ints |-> <<>>, err |-> ""]

Last(op, input, ret, validate) ==
    [op |-> op, input |-> input, ret |-> ret, validate |-> validate, reply |-> NoReply,
     events |-> <<>>]

\* A command on the second key is in progress: its outcome is in last and copy.
SecondKeyBusy == last.op \in {"create_copy_from", "decode_object", "load_from_rdb"}

\* ------------------------------------------------------------ object operations
Init ==
    /\ obj = <<>>
    /\ copy = <<>>
    /\ added = {}
    /\ last = Last("init", <<>>, "Ok", FALSE)
    /\ metrics = ZeroMetrics
    /\ memory_limit \in MemoryLimits
    /\ replica = <<>>
    /\ repl = <<>>
    /\ defrag = NoDefrag(BLOOM_DEFRAG_DEFAULT)
    /\ defaults = DefaultFloats

\* BloomObject::new_reserved where the key holds nothing.
Outcome(op, input, validate, r) ==
    /\ metrics' = r.metrics
    /\ last' = Last(op, input, r.ret, validate)

NewReserved(fp_rate, tightening_ratio, cap, expansion, s, validate) ==
    /\ obj = <<>> /\ ~SecondKeyBusy
    /\ \E r \in {new_reserved(metrics, fp_rate, tightening_ratio, cap, expansion,
                              s, s # FIXED_SEED, validate)} :
          obj' = r.obj /\ Outcome("new_reserved", <<>>, validate, r)
    /\ added' = {}
    /\ UNCHANGED <<copy, memory_limit, replica, repl, defrag, defaults>>

\* BloomObject::add_item on the object under the key.
AddItem(item, validate) ==
    /\ obj # <<>> /\ ~SecondKeyBusy
    /\ \E r \in {add_item(metrics, obj[1], item, validate)} :
          /\ obj' = <<r.obj>>
          /\ added' = IF r.ret = "Ok1" THEN added \cup {item} ELSE added
          /\ Outcome("add_item", item, validate, r)
    /\ UNCHANGED <<copy, memory_limit, replica, repl, defrag, defaults>>

\* bloom_free of the object under the key.
Free ==
    /\ obj # <<>> /\ ~SecondKeyBusy
    /\ obj' = <<>>
    /\ metrics' = DropBloomObject(metrics, obj[1])
    /\ added' = {}
    /\ last' = Last("free", <<>>, "Ok", FALSE)
    /\ UNCHANGED <<copy, memory_limit, replica, repl, defrag, defaults>>

\* bloom_copy: create_copy_from into the second key.
CreateCopyFrom ==
    /\ obj # <<>> /\ ~SecondKeyBusy
    /\ \E r \in {create_copy_from(metrics, obj[1])} :
          copy' = r.obj /\ metrics' = r.metrics
    /\ last' = Last("create_copy_from", <<>>, "Ok", FALSE)
    /\ UNCHANGED <<obj, added, memory_limit, replica, repl, defrag, defaults>>

\* BloomObject::decode_object of a payload into the second key.
DecodeObject(bytes, validate) ==
    /\ obj # <<>> /\ ~SecondKeyBusy
    /\ \E r \in {decode_object(metrics, bytes, validate)} :
          copy' = r.obj /\ Outcome("decode_object", bytes, validate, r)
    /\ UNCHANGED <<obj, added, memory_limit, replica, repl, defrag, defaults>>

\* bloom_rdb_load of a snapshot stream into the second key.
RdbLoad(rdb, encver) ==
    /\ obj # <<>> /\ ~SecondKeyBusy
    /\ \E r \in {load_from_rdb(metrics, rdb, encver)} :
          copy' = r.obj /\ Outcome("load_from_rdb", rdb, FALSE, r)
    /\ UNCHANGED <<obj, added, memory_limit, replica, repl, defrag, defaults>>

\* The second key is released before the next command: bloom_free of the value
\* it holds, if the command left one.
FreeCopy ==
    /\ SecondKeyBusy
    /\ copy' = <<>>
    /\ metrics' = IF copy = <<>> THEN metrics ELSE DropBloomObject(metrics, copy[1])
    /\ last' = Last("free", <<>>, "Ok", FALSE)
    /\ UNCHANGED <<obj, added, memory_limit, replica, repl, defrag, defaults>>

Next ==
    \/ \E fp \in FpRates, tr \in TighteningRatios, c \in Capacities,
          e \in Expansions, s \in Seeds, v \in BOOLEAN :
          NewReserved(fp, tr, c, e, s, v)
    \/ \E item \in Items, v \in BOOLEAN : AddItem(item, v)
    \/ Free
    \/ CreateCopyFrom
    \/ \E o \in (IF obj = <<>> THEN {} ELSE CraftedObjects(obj[1])), v \in BOOLEAN :
          DecodeObject(encode_object(o), v)
    \/ \E bytes \in (IF obj = <<>> THEN {} ELSE MalformedBlobs(obj[1])) :
          DecodeObject(bytes, TRUE)
    \/ \E o \in (IF obj = <<>> THEN {} ELSE CraftedObjects(obj[1])) :
          RdbLoad(bloom_rdb_save(o), BLOOM_FILTER_TYPE_ENCODING_VERSION)
    \/ \E encver \in {BLOOM_FILTER_TYPE_ENCODING_VERSION + 1} :
          obj # <<>> /\ RdbLoad(bloom_rdb_save(obj[1]), encver)
    \/ FreeCopy

Spec == Init /\ [][Next]_vars

\* Payloads cut after their last filter: the header announces one filter more
\* than the payload holds.
TruncatedBlobs(o) ==
    IF o.filters = <<>> THEN {} ELSE {[encode_object(o) EXCEPT ![6] = @ + 1]}

\* The objects alive: the one under the key and the one under the second key.
LiveObjects == obj \o copy

\* Filters dropped without having been counted, as the counter of filters shows.
UncountedDrops ==
    WrapU64((IF obj = <<>> THEN 0 ELSE num_filters(obj[1]))
            + (IF copy = <<>> THEN 0 ELSE num_filters(copy[1])) - metrics.num_filters)

\* Truncated payloads are drawn until MaxUncounted filters were dropped uncounted.
MaxUncounted == 1

\* Every operation on the counters, on objects of one error rate and expansion 0 or 1.
NextMetrics ==
    \/ \E c \in Capacities, e \in 0..1, v \in BOOLEAN :
          NewReserved(8, 8, c, e, FIXED_SEED, v)
    \/ \E item \in Items, v \in BOOLEAN : AddItem(item, v)
    \/ Free
    \/ CreateCopyFrom
    \/ \E o \in (IF obj = <<>> THEN {} ELSE CraftedObjects(obj[1])), v \in BOOLEAN :
          DecodeObject(encode_object(o), v)
    \/ \E bytes \in (IF obj = <<>> THEN {} ELSE MalformedBlobs(obj[1])) :
          DecodeObject(bytes, TRUE)
    \/ \E bytes \in (IF obj = <<>> THEN {} ELSE TruncatedBlobs(obj[1])) :
          UncountedDrops < MaxUncounted /\ DecodeObject(bytes, TRUE)
    \/ \E o \in (IF obj = <<>> THEN {} ELSE CraftedObjects(obj[1])) :
          RdbLoad(bloom_rdb_save(o), BLOOM_FILTER_TYPE_ENCODING_VERSION)
    \/ \E encver \in {BLOOM_FILTER_TYPE_ENCODING_VERSION + 1} :
          obj # <<>> /\ RdbLoad(bloom_rdb_save(obj[1]), encver)
    \/ FreeCopy

SpecMetrics == Init /\ [][NextMetrics]_vars

\* ------------------------------------------------------------ command arguments
\* A command is a sequence of arguments, an argument a byte string: the command
\* name, the key, then keywords (ASCII), numbers (decimal text) and items.
BF_ADD == <<66, 70, 46, 65, 68, 68>>
BF_MADD == <<66, 70, 46, 77, 65, 68, 68>>
BF_RESERVE == <<66, 70, 46, 82, 69, 83, 69, 82, 86, 69>>
BF_INSERT == <<66, 70, 46, 73, 78, 83, 69, 82, 84>>
BF_LOAD == <<66, 70, 46, 76, 79, 65, 68>>
BF_EXISTS == <<66, 70, 46, 69, 88, 73, 83, 84, 83>>
BF_MEXISTS == <<66, 70, 46, 77, 69, 88, 73, 83, 84, 83>>
BF_CARD == <<66, 70, 46, 67, 65, 82, 68>>
BF_INFO == <<66, 70, 46, 73, 78, 70, 79>>
KEY_NAME == <<107>>
KW_SIZE == <<83, 73, 90, 69>>
KW_FILTERS == <<70, 73, 76, 84, 69, 82, 83>>
KW_CAPACITY == <<67, 65, 80, 65, 67, 73, 84, 89>>
KW_ERROR == <<69, 82, 82, 79, 82>>
KW_TIGHTENING == <<84, 73, 71, 72, 84, 69, 78, 73, 78, 71>>
KW_SEED == <<83, 69, 69, 68>>
KW_NONSCALING == <<78, 79, 78, 83, 67, 65, 76, 73, 78, 71>>
KW_EXPANSION == <<69, 88, 80, 65, 78, 83, 73, 79, 78>>
KW_NOCREATE == <<78, 79, 67, 82, 69, 65, 84, 69>>
KW_ITEMS == <<73, 84, 69, 77, 83>>

\* str::to_uppercase on ASCII.
ToUpper(t) == [i \in 1..Len(t) |-> IF t[i] \in 97..122 THEN t[i] - 32 ELSE t[i]]

Front(t) == SubSeq(t, 1, Len(t) - 1)

\* i64::to_string / u32::to_string of a non-negative number.
RECURSIVE IntToString(_)
IntToString(n) == IF n < 10 THEN <<48 + n>> ELSE IntToString(n \div 10) \o <<48 + (n % 10)>>

IsDigits(t) == t # <<>> /\ \A i \in 1..Len(t) : t[i] \in 48..57

RECURSIVE DigitsValue(_)
DigitsValue(t) ==
    IF t = <<>> THEN 0 ELSE 10 * DigitsValue(Front(t)) + (t[Len(t)] - 48)

\* str::parse::<i64> (and ::<u32>): [ok, val]; a value above the type's range fails.
ParseInt(t, max) ==
    IF IsDigits(t) /\ Len(t) <= 2 /\ DigitsValue(t) <= max
    THEN [ok |-> TRUE, val |-> DigitsValue(t)]
    ELSE [ok |-> FALSE, val |-> 0]

RECURSIVE StripZeros(_)
StripZeros(t) ==
    IF t # <<>> /\ t[Len(t)] = 48 THEN StripZeros(Front(t)) ELSE t

\* f64::to_string: the shortest decimal text that reads back as the same value;
\* a sixteenth is 0.0625.
F64ToString(x) ==
    LET fr == (x % FP_ONE) * 625
    IN  IntToString(x \div FP_ONE)
        \o (IF fr = 0 THEN <<>>
            ELSE <<46>> \o StripZeros(<<48 + (fr \div 1000), 48 + ((fr \div 100) % 10),
                                       48 + ((fr \div 10) % 10), 48 + (fr % 10)>>))

RECURSIVE Pow10(_)
Pow10(n) == IF n <= 0 THEN 1 ELSE 10 * Pow10(n - 1)

\* str::parse::<f64> of "<digits>" or "<digits>.<digits>": [ok, val].
ParseF64(t) ==
    LET dots == {i \in 1..Len(t) : t[i] = 46}
        dot == IF dots = {} THEN Len(t) + 1 ELSE CHOOSE i \in dots : \A j \in dots : i <= j
        ip == SubSeq(t, 1, dot - 1)
        fp == SubSeq(t, dot + 1, Len(t))
    IN  IF IsDigits(ip) /\ Len(ip) <= 2 /\ Len(fp) <= 4
           /\ (dots = {} \/ IsDigits(fp))
        THEN [ok |-> TRUE,
              val |-> DigitsValue(ip) * FP_ONE
                      + (DigitsValue(fp) * FP_ONE) \div Pow10(Len(fp))]
        ELSE [ok |-> FALSE, val |-> 0]

\* ------------------------------------------------------------ command handlers
\* The configs a handler reads, per node.
PrimaryConfig ==
    [fp_rate |-> defaults.fp_rate, tightening_ratio |-> defaults.tightening_ratio,
     capacity |-> 1, expansion |-> 1,
     use_random_seed |-> TRUE]
ReplicaConfig ==
    [fp_rate |-> 4, tightening_ratio |-> 4, capacity |-> 2, expansion |-> 2,
     use_random_seed |-> FALSE]

\* The multi branch of handle_bloom_add: items are added until one fails.
RECURSIVE AddItems(_, _, _)
RECURSIVE AddItemsAfter(_, _, _)
AddItemsJoin(r, rest) ==
    [obj |-> rest.obj, add_succeeded |-> (r.ret = "Ok1") \/ rest.add_succeeded,
     ret |-> rest.ret,
     reply |-> [rest.reply EXCEPT !.ints = <<IF r.ret = "Ok1" THEN 1 ELSE 0>> \o @]]

\* Faulty loop: a failing item is reported as 0 and the loop goes on.
AddItemsPastError(r, items, validate_size_limit) ==
    AddItemsJoin(r, AddItems(r.obj, Tail(items), validate_size_limit))

AddItemsAfter(r, items, validate_size_limit) ==
    IF r.ret \notin {"Ok0", "Ok1"}
    THEN [obj |-> r.obj, add_succeeded |-> FALSE, ret |-> r.ret,
          reply |-> [array |-> TRUE, ints |-> <<>>, err |-> r.ret]]
    ELSE AddItemsJoin(r, AddItems(r.obj, Tail(items), validate_size_limit))

AddItems(o, items, validate_size_limit) ==
    IF items = <<>>
    THEN [obj |-> o, add_succeeded |-> FALSE, ret |-> "Ok",
          reply |-> [array |-> TRUE, ints |-> <<>>, err |-> ""]]
    ELSE AddItemsAfter(add_item(ZeroMetrics, o, Head(items), validate_size_limit),
                       items, validate_size_limit)

\* handle_bloom_add: [obj, add_succeeded, ret, reply]; the single-item branch
\* hands back the integer or the error itself.
handle_bloom_add(o, items, multi, validate_size_limit) ==
    IF multi THEN AddItems(o, items, validate_size_limit)
    ELSE [AddItems(o, <<Head(items)>>, validate_size_limit) EXCEPT !.reply.array = FALSE]

\* ReplicateArgs of an object and the item arguments of the command.
ReplicateArgs(o, items) ==
    [capacity |-> capacity(o), expansion |-> o.expansion, fp_rate |-> o.fp_rate,
     tightening_ratio |-> o.tightening_ratio, seed |-> seed(o), items |-> items]

\* Faulty replication: the client's command is handed on as it came, whatever
\* the operation was.
ReplicateVerbatim(cmd, add_operation, reserve_operation, args) ==
    IF add_operation \/ reserve_operation THEN <<cmd>> ELSE <<>>

\* replicate_and_notify_events: the commands handed to the replicas.
replicate_and_notify_events(cmd, add_operation, reserve_operation, args) ==
    IF reserve_operation
    THEN <<(<<BF_INSERT, cmd[2],
              KW_CAPACITY, IntToString(args.capacity),
              KW_ERROR, F64ToString(args.fp_rate),
              KW_TIGHTENING, F64ToString(args.tightening_ratio),
              KW_SEED, <<args.seed>>>>
            \o (IF args.expansion = 0 THEN <<KW_NONSCALING>>
                ELSE <<KW_EXPANSION, IntToString(args.expansion)>>)
            \o (IF args.items # <<>> THEN <<KW_ITEMS>> ELSE <<>>)
            \o args.items)>>
    ELSE IF add_operation THEN <<cmd>>
    ELSE <<>>

\* The keyspace events replicate_and_notify_events publishes.
KeyspaceEvents(add_operation, reserve_operation) ==
    (IF add_operation THEN <<"bloom.add">> ELSE <<>>)
    \o (IF reserve_operation THEN <<"bloom.reserve">> ELSE <<>>)

Reply(o, ret, emit) ==
    [obj |-> o, ret |-> ret, emit |-> emit, reply |-> NoReply, events |-> <<>>]

\* The creation branch shared by BF.ADD, BF.MADD and BF.INSERT: new_reserved, the
\* adds, set_value, replication.
CreatedAndAdded(cmd, bloom, items, r) ==
    [Reply(<<r.obj>>, r.ret,
           replicate_and_notify_events(cmd, r.add_succeeded, TRUE,
                                       ReplicateArgs(bloom, items)))
        EXCEPT !.reply = r.reply, !.events = KeyspaceEvents(r.add_succeeded, TRUE)]

CreateAndAddTo(cmd, value, created, items, multi, validate_size_limit) ==
    IF created.ret # "Ok" THEN Reply(value, created.ret, <<>>)
    ELSE CreatedAndAdded(cmd, created.obj[1], items,
                         handle_bloom_add(created.obj[1], items, multi,
                                          validate_size_limit))

CreateAndAdd(cmd, value, p, items, multi, validate_size_limit) ==
    CreateAndAddTo(cmd, value,
                   new_reserved(ZeroMetrics, p.fp_rate, p.tightening_ratio, p.capacity,
                                p.expansion, p.seed, p.is_seed_random,
                                validate_size_limit),
                   items, multi, validate_size_limit)

\* The branch of the same commands on an existing object.
AddedToExisting(cmd, items, r) ==
    [Reply(<<r.obj>>, r.ret,
           replicate_and_notify_events(cmd, r.add_succeeded, FALSE,
                                       ReplicateArgs(r.obj, items)))
        EXCEPT !.reply = r.reply, !.events = KeyspaceEvents(r.add_succeeded, FALSE)]

AddToExisting(cmd, bloom, items, multi, validate_size_limit) ==
    AddedToExisting(cmd, items,
                    handle_bloom_add(bloom, items, multi, validate_size_limit))

\* The properties of an object created from the configs; draw is the random seed.
FromConfig(cfg, draw) ==
    [fp_rate |-> cfg.fp_rate, tightening_ratio |-> cfg.tightening_ratio,
     capacity |-> cfg.capacity, expansion |-> cfg.expansion,
     seed |-> IF cfg.use_random_seed THEN draw ELSE FIXED_SEED,
     is_seed_random |-> cfg.use_random_seed]

\* bloom_filter_add_value (BF.ADD, BF.MADD)
bloom_filter_add_value(cfg, replicated, draw, value, cmd, multi) ==
    LET argc == Len(cmd)
        items == SubSeq(cmd, 3, argc)
    IN  IF (~multi /\ argc # 3) \/ argc < 3 THEN Reply(value, "WrongArity", <<>>)
        ELSE IF value # <<>>
        THEN AddToExisting(cmd, value[1], items, multi, ~replicated)
        ELSE CreateAndAdd(cmd, value, FromConfig(cfg, draw), items, multi, ~replicated)

\* The error-rate and tightening arguments: [err, val].
RateOf(num, range_error, bad_error) ==
    IF num.ok /\ num.val > FP_ZERO /\ num.val < FP_ONE
    THEN [err |-> "", val |-> num.val]
    ELSE [err |-> IF num.ok THEN range_error ELSE bad_error, val |-> 0]

ParseRate(t, range_error, bad_error) == RateOf(ParseF64(t), range_error, bad_error)

\* The capacity argument: [err, val].
CapacityOf(num) ==
    IF num.ok /\ num.val \in BLOOM_CAPACITY_MIN..I64Max
    THEN [err |-> "", val |-> num.val]
    ELSE [err |-> IF num.ok /\ num.val = 0 THEN "CapacityLargerThan0"
                  ELSE "BadCapacity", val |-> 0]

ParseCapacity(t) == CapacityOf(ParseInt(t, I64Max))

\* The expansion argument: [err, val].
ExpansionOf(num) ==
    IF num.ok /\ num.val \in BLOOM_EXPANSION_MIN..BLOOM_EXPANSION_MAX
    THEN [err |-> "", val |-> num.val]
    ELSE [err |-> "BadExpansion", val |-> 0]

ParseExpansion(t) == ExpansionOf(ParseInt(t, BLOOM_EXPANSION_MAX))

\* bloom_filter_reserve (BF.RESERVE)
Reserved(cmd, value, created) ==
    IF created.ret # "Ok" THEN Reply(value, created.ret, <<>>)
    ELSE [Reply(created.obj, "Ok",
                replicate_and_notify_events(cmd, FALSE, TRUE,
                                            ReplicateArgs(created.obj[1], <<>>)))
             EXCEPT !.events = KeyspaceEvents(FALSE, TRUE)]

ReserveParsed(cfg, replicated, draw, value, cmd, fp_rate, cap, exp) ==
    IF fp_rate.err # "" THEN Reply(value, fp_rate.err, <<>>)
    ELSE IF cap.err # "" THEN Reply(value, cap.err, <<>>)
    ELSE IF exp.err # "" THEN Reply(value, exp.err, <<>>)
    ELSE IF value # <<>> THEN Reply(value, "ItemExists", <<>>)
    ELSE Reserved(cmd, value,
                  new_reserved(ZeroMetrics, fp_rate.val, cfg.tightening_ratio, cap.val,
                               exp.val,
                               IF cfg.use_random_seed THEN draw ELSE FIXED_SEED,
                               cfg.use_random_seed, ~replicated))

ReserveExpansion(cfg, cmd) ==
    IF Len(cmd) = 4 THEN [err |-> "", val |-> cfg.expansion]
    ELSE IF ToUpper(cmd[5]) = KW_NONSCALING /\ Len(cmd) = 5 THEN [err |-> "", val |-> 0]
    ELSE IF ToUpper(cmd[5]) = KW_EXPANSION /\ Len(cmd) = 6 THEN ParseExpansion(cmd[6])
    ELSE [err |-> "Error", val |-> 0]

bloom_filter_reserve(cfg, replicated, draw, value, cmd) ==
    IF Len(cmd) \notin 4..6 THEN Reply(value, "WrongArity", <<>>)
    ELSE ReserveParsed(cfg, replicated, draw, value, cmd,
                       ParseRate(cmd[3], "ErrorRateRange", "BadErrorRate"),
                       ParseCapacity(cmd[4]), ReserveExpansion(cfg, cmd))

\* The option loop of bloom_filter_insert from argument idx: the properties p, with
\* p.err the error it returned with and p.idx the first item.
RECURSIVE ParseInsert(_, _, _)
InsertValue(cmd, idx, p, v, q) ==
    IF v.err # "" THEN [p EXCEPT !.err = v.err] ELSE ParseInsert(cmd, idx + 2, q)

ParseInsert(cmd, idx, p) ==
    LET argc == Len(cmd)
        kw == ToUpper(cmd[idx])
        no_value == idx >= argc
        fail(e) == [p EXCEPT !.err = e]
    IN  IF idx > argc THEN [p EXCEPT !.idx = idx]
        ELSE IF kw \in {KW_ERROR, KW_TIGHTENING, KW_CAPACITY, KW_SEED, KW_EXPANSION}
                /\ no_value
        THEN fail("WrongArity")
        ELSE IF kw = KW_ERROR
        THEN InsertValue(cmd, idx, p,
                         ParseRate(cmd[idx + 1], "ErrorRateRange", "BadErrorRate"),
                         [p EXCEPT !.fp_rate =
                             ParseRate(cmd[idx + 1], "ErrorRateRange", "BadErrorRate").val])
        ELSE IF kw = KW_TIGHTENING
        THEN InsertValue(cmd, idx, p,
                         ParseRate(cmd[idx + 1], "TighteningRatioRange",
                                   "BadTighteningRatio"),
                         [p EXCEPT !.tightening_ratio =
                             ParseRate(cmd[idx + 1], "TighteningRatioRange",
                                       "BadTighteningRatio").val])
        ELSE IF kw = KW_CAPACITY
        THEN InsertValue(cmd, idx, p, ParseCapacity(cmd[idx + 1]),
                         [p EXCEPT !.capacity = ParseCapacity(cmd[idx + 1]).val])
        ELSE IF kw = KW_SEED
        THEN IF Len(cmd[idx + 1]) # 1 THEN fail("InvalidSeed")
             ELSE ParseInsert(cmd, idx + 2,
                              [p EXCEPT !.seed = cmd[idx + 1][1],
                                        !.is_seed_random = (cmd[idx + 1][1] # FIXED_SEED)])
        ELSE IF kw = KW_NOCREATE
        THEN ParseInsert(cmd, idx + 1, [p EXCEPT !.nocreate = TRUE])
        ELSE IF kw = KW_NONSCALING
        THEN ParseInsert(cmd, idx + 1, [p EXCEPT !.expansion = 0])
        ELSE IF kw = KW_EXPANSION
        THEN InsertValue(cmd, idx, p, ParseExpansion(cmd[idx + 1]),
                         [p EXCEPT !.expansion = ParseExpansion(cmd[idx + 1]).val])
        ELSE IF kw = KW_ITEMS
        THEN [p EXCEPT !.idx = idx + 1, !.items_provided = TRUE]
        ELSE fail("UnknownArgument")

\* Faulty BF.INSERT: NOCREATE is parsed and then ignored.
InsertIgnoringNoCreate(replicated, value, cmd, p) ==
    IF p.err # "" THEN Reply(value, p.err, <<>>)
    ELSE IF p.idx = Len(cmd) + 1 /\ p.items_provided THEN Reply(value, "WrongArity", <<>>)
    ELSE IF value # <<>>
    THEN AddToExisting(cmd, value[1], SubSeq(cmd, p.idx, Len(cmd)), TRUE, ~replicated)
    ELSE CreateAndAdd(cmd, value, p, SubSeq(cmd, p.idx, Len(cmd)), TRUE, ~replicated)

\* bloom_filter_insert (BF.INSERT)
InsertParsed(replicated, value, cmd, p) ==
    IF p.err # "" THEN Reply(value, p.err, <<>>)
    ELSE IF p.idx = Len(cmd) + 1 /\ p.items_provided THEN Reply(value, "WrongArity", <<>>)
    ELSE IF value # <<>>
    THEN AddToExisting(cmd, value[1], SubSeq(cmd, p.idx, Len(cmd)), TRUE, ~replicated)
    ELSE IF p.nocreate THEN Reply(value, "NotFound", <<>>)
    ELSE CreateAndAdd(cmd, value, p, SubSeq(cmd, p.idx, Len(cmd)), TRUE, ~replicated)

bloom_filter_insert(cfg, replicated, draw, value, cmd) ==
    IF Len(cmd) < 2 THEN Reply(value, "WrongArity", <<>>)
    ELSE InsertParsed(replicated, value, cmd,
                      ParseInsert(cmd, 3,
                          [fp_rate |-> cfg.fp_rate,
                           tightening_ratio |-> cfg.tightening_ratio,
                           capacity |-> cfg.capacity, expansion |-> cfg.expansion,
                           seed |-> IF cfg.use_random_seed THEN draw ELSE FIXED_SEED,
                           is_seed_random |-> cfg.use_random_seed,
                           nocreate |-> FALSE, items_provided |-> FALSE,
                           err |-> "", idx |-> 3]))

\* bloom_filter_load (BF.LOAD)
Loaded(value, cmd, decoded) ==
    IF decoded.ret # "Ok" THEN Reply(value, decoded.ret, <<>>)
    ELSE [Reply(decoded.obj, "Ok",
                replicate_and_notify_events(
                    cmd, FALSE, TRUE,
                    ReplicateArgs(decoded.obj[1], SubSeq(cmd, 3, Len(cmd)))))
             EXCEPT !.events = KeyspaceEvents(FALSE, TRUE)]

\* Faulty BF.LOAD: the payload is loaded over whatever the key holds.
LoadOverExisting(replicated, value, cmd) ==
    IF Len(cmd) # 3 THEN Reply(value, "WrongArity", <<>>)
    ELSE Loaded(value, cmd, decode_object(ZeroMetrics, cmd[3], ~replicated))

bloom_filter_load(replicated, value, cmd) ==
    IF Len(cmd) # 3 THEN Reply(value, "WrongArity", <<>>)
    ELSE IF value # <<>> THEN Reply(value, "KeyExists", <<>>)
    ELSE Loaded(value, cmd, decode_object(ZeroMetrics, cmd[3], ~replicated))

\* Faulty handle_item_exists: a missing key reports every item.
ItemExistsOnMissingKey(value, item) ==
    IF value = <<>> \/ item_exists(value[1], item) THEN 1 ELSE 0

\* handle_item_exists
handle_item_exists(value, item) ==
    IF value # <<>> /\ item_exists(value[1], item) THEN 1 ELSE 0

\* A reply that changes nothing: an integer, an array of integers, or an error.
ReadReply(value, array, ints) ==
    [Reply(value, "Ok", <<>>) EXCEPT !.reply = [array |-> array, ints |-> ints, err |-> ""]]

\* bloom_filter_exists (BF.EXISTS, BF.MEXISTS)
bloom_filter_exists(value, cmd, multi) ==
    IF (~multi /\ Len(cmd) # 3) \/ Len(cmd) < 3 THEN Reply(value, "WrongArity", <<>>)
    ELSE IF ~multi THEN ReadReply(value, FALSE, <<handle_item_exists(value, cmd[3])>>)
    ELSE ReadReply(value, TRUE,
                   [i \in 1..(Len(cmd) - 2) |-> handle_item_exists(value, cmd[i + 2])])

\* bloom_filter_card (BF.CARD)
bloom_filter_card(value, cmd) ==
    IF Len(cmd) # 2 THEN Reply(value, "WrongArity", <<>>)
    ELSE ReadReply(value, FALSE, <<IF value # <<>> THEN cardinality(value[1]) ELSE 0>>)

\* The expansion as BF.INFO reports it: Null, no integer, for a non-scaling object.
InfoExpansion(o) == IF o.expansion = 0 THEN <<>> ELSE <<o.expansion>>

\* BF.INFO with a field name.
InfoField(value, field) ==
    IF field = KW_CAPACITY THEN ReadReply(value, FALSE, <<capacity(value[1])>>)
    ELSE IF field = KW_SIZE THEN ReadReply(value, FALSE, <<memory_usage(value[1])>>)
    ELSE IF field = KW_FILTERS THEN ReadReply(value, FALSE, <<num_filters(value[1])>>)
    ELSE IF field = KW_ITEMS THEN ReadReply(value, FALSE, <<cardinality(value[1])>>)
    ELSE IF field = KW_EXPANSION THEN ReadReply(value, FALSE, InfoExpansion(value[1]))
    ELSE Reply(value, "InvalidInfoValue", <<>>)

\* bloom_filter_info (BF.INFO)
bloom_filter_info(value, cmd) ==
    IF Len(cmd) \notin 2..3 THEN Reply(value, "WrongArity", <<>>)
    ELSE IF value = <<>> THEN Reply(value, "NotFound", <<>>)
    ELSE IF Len(cmd) = 3 THEN InfoField(value, ToUpper(cmd[3]))
    ELSE ReadReply(value, TRUE,
                   <<capacity(value[1]), memory_usage(value[1]), num_filters(value[1]),
                     cardinality(value[1])>> \o InfoExpansion(value[1]))

\* The command table of src/lib.rs.
Dispatch(cfg, replicated, draw, value, cmd) ==
    IF cmd[1] = BF_ADD THEN bloom_filter_add_value(cfg, replicated, draw, value, cmd, FALSE)
    ELSE IF cmd[1] = BF_MADD
    THEN bloom_filter_add_value(cfg, replicated, draw, value, cmd, TRUE)
    ELSE IF cmd[1] = BF_RESERVE THEN bloom_filter_reserve(cfg, replicated, draw, value, cmd)
    ELSE IF cmd[1] = BF_INSERT THEN bloom_filter_insert(cfg, replicated, draw, value, cmd)
    ELSE IF cmd[1] = BF_EXISTS THEN bloom_filter_exists(value, cmd, FALSE)
    ELSE IF cmd[1] = BF_MEXISTS THEN bloom_filter_exists(value, cmd, TRUE)
    ELSE IF cmd[1] = BF_CARD THEN bloom_filter_card(value, cmd)
    ELSE IF cmd[1] = BF_INFO THEN bloom_filter_info(value, cmd)
    ELSE bloom_filter_load(replicated, value, cmd)

\* ------------------------------------------------------------ replication
\* Item lists of BF.MADD and BF.INSERT.
ItemPairs == {<<a, b>> : a \in Items, b \in Items}
ItemLists == {<<a>> : a \in Items} \cup {l \in ItemPairs : l[1][1] < l[2][1]}

\* Option lists of BF.RESERVE and of BF.INSERT.
ReserveOptions ==
    {<<>>, <<KW_NONSCALING>>}
    \cup {<<KW_EXPANSION, IntToString(e)>> : e \in BLOOM_EXPANSION_MIN..BLOOM_EXPANSION_MAX}
InsertOptions ==
    {<<>>, <<KW_NOCREATE>>,
     <<KW_CAPACITY, IntToString(2), KW_ERROR, F64ToString(4), KW_NONSCALING>>}

\* Payloads of BF.LOAD: encodings of objects built by new_reserved and add_item.
BuiltObject(items) ==
    AddItems(new_reserved(ZeroMetrics, 8, 8, 1, 1, FIXED_SEED, FALSE, FALSE).obj[1],
             items, FALSE).obj
ValidBlobs ==
    {encode_object(BuiltObject(items)) :
        items \in {<<>>, <<<<1>>>>, <<<<1>>, <<2>>>>}}

\* The outcome r of a command on the primary; last.input is what it emitted.
Replied(op, r) ==
    /\ obj' = r.obj
    /\ repl' = r.emit
    /\ last' = [Last(op, r.emit, r.ret, TRUE) EXCEPT !.reply = r.reply,
                                                     !.events = r.events]

\* A client command on the primary.
ClientCommand(op, cmd) ==
    \E draw \in RandomSeeds : Replied(op, Dispatch(PrimaryConfig, FALSE, draw, obj, cmd))

\* The commands: each is sent once the replica has applied what was emitted before.
BfReserve(fp_rate, cap, options) ==
    /\ repl = <<>>
    /\ ClientCommand("BF.RESERVE",
                     <<BF_RESERVE, KEY_NAME, F64ToString(fp_rate), IntToString(cap)>>
                     \o options)
    /\ UNCHANGED <<copy, added, metrics, memory_limit, replica, defrag, defaults>>

BfAdd(item) ==
    /\ repl = <<>>
    /\ ClientCommand("BF.ADD", <<BF_ADD, KEY_NAME, item>>)
    /\ UNCHANGED <<copy, added, metrics, memory_limit, replica, defrag, defaults>>

BfMAdd(items) ==
    /\ repl = <<>>
    /\ ClientCommand("BF.MADD", <<BF_MADD, KEY_NAME>> \o items)
    /\ UNCHANGED <<copy, added, metrics, memory_limit, replica, defrag, defaults>>

BfInsert(options, items) ==
    /\ repl = <<>>
    /\ ClientCommand("BF.INSERT",
                     <<BF_INSERT, KEY_NAME>> \o options \o <<KW_ITEMS>> \o items)
    /\ UNCHANGED <<copy, added, metrics, memory_limit, replica, defrag, defaults>>

BfLoad(blob) ==
    /\ repl = <<>>
    /\ ClientCommand("BF.LOAD", <<BF_LOAD, KEY_NAME, blob>>)
    /\ UNCHANGED <<copy, added, metrics, memory_limit, replica, defrag, defaults>>

\* The replica applies the next replicated command: the REPLICATED flag is set.
ReplicaApply ==
    /\ repl # <<>>
    /\ \E draw \in RandomSeeds :
          replica' = Dispatch(ReplicaConfig, TRUE, draw, replica, Head(repl)).obj
    /\ repl' = Tail(repl)
    /\ UNCHANGED <<obj, copy, added, last, metrics, memory_limit, defrag, defaults>>

NextRepl ==
    \/ \E fp \in FpRates, c \in Capacities, options \in ReserveOptions :
          BfReserve(fp, c, options)
    \/ \E item \in Items : BfAdd(item)
    \/ \E items \in ItemPairs : BfMAdd(items)
    \/ \E options \in InsertOptions, items \in ItemLists : BfInsert(options, items)
    \/ ReplicaApply

SpecRepl == Init /\ [][NextRepl]_vars

NextLoad ==
    \/ NextRepl
    \/ \E blob \in ValidBlobs : BfLoad(blob)

SpecLoad == Init /\ [][NextLoad]_vars

\* ------------------------------------------------------------ defrag passes
\* bloom_defrag on the object under the key. A pass starts while the counters
\* are under MaxDefragAllocs.
BloomDefrag(k, h, vec_moved, moved) ==
    /\ obj # <<>>
    /\ defrag.in_pass \/ defrag.hits + defrag.misses < MaxDefragAllocs
    /\ h <= 3 * Min(k, Len(obj[1].filters) - DefragCursor(defrag))
    /\ defrag.enabled \/ (k = 0 /\ h = 0 /\ ~moved)
    /\ \E r \in {bloom_defrag(defrag, obj[1], k, h, vec_moved, moved)} :
          /\ obj' = <<r.obj>>
          /\ defrag' = r.defrag
          /\ last' = Last("bloom_defrag", <<>>, r.ret, FALSE)
    /\ UNCHANGED <<copy, added, metrics, memory_limit, replica, repl, defaults>>

\* An invocation whose first should_stop answers false.
DefragProgress == \E k \in 1..FMax, h \in 0..(3 * FMax), moved \in BOOLEAN : BloomDefrag(k, h, TRUE, moved)

InitDefrag ==
    /\ obj = <<>>
    /\ copy = <<>>
    /\ added = {}
    /\ last = Last("init", <<>>, "Ok", FALSE)
    /\ metrics = ZeroMetrics
    /\ memory_limit \in MemoryLimits
    /\ replica = <<>>
    /\ repl = <<>>
    /\ defrag \in {NoDefrag(e) : e \in BOOLEAN}
    /\ defaults = DefaultFloats

\* The key is written between passes only: the host serializes the work on a key.
\* The filter vector is moved each time here; NextCounters draws that answer too.
NextDefrag ==
    \/ \E e \in {0, 1} :
          ~defrag.in_pass /\ NewReserved(8, 8, 1, e, FIXED_SEED, FALSE)
    \/ \E item \in Items : ~defrag.in_pass /\ AddItem(item, FALSE)
    \/ \E k \in 0..FMax, h \in 0..(3 * FMax), moved \in BOOLEAN : BloomDefrag(k, h, TRUE, moved)

\* The host keeps invoking the callback, and should_stop lets an invocation start.
SpecDefrag == InitDefrag /\ [][NextDefrag]_vars /\ WF_vars(DefragProgress)

\* Every answer of should_stop and of alloc, the filter vector's included.
NextCounters ==
    \/ \E e \in {0, 1} :
          ~defrag.in_pass /\ NewReserved(8, 8, 1, e, FIXED_SEED, FALSE)
    \/ \E item \in Items : ~defrag.in_pass /\ AddItem(item, FALSE)
    \/ \E k \in 0..FMax, h \in 0..(3 * FMax), vec_moved, moved \in BOOLEAN :
          BloomDefrag(k, h, vec_moved, moved)

SpecCounters == InitDefrag /\ [][NextCounters]_vars

\* Invocations by what should_stop answers: few items, the filter vector moved.
LoopHits == 0..1
NextInvocations ==
    \/ ~defrag.in_pass /\ NewReserved(8, 8, 1, 1, FIXED_SEED, FALSE)
    \/ \E item \in {<<1>>, <<2>>, <<3>>} : ~defrag.in_pass /\ AddItem(item, FALSE)
    \/ \E k \in 0..FMax, h \in LoopHits, moved \in BOOLEAN : BloomDefrag(k, h, TRUE, moved)

SpecInvocations == InitDefrag /\ [][NextInvocations]_vars

\* The same invocations where the host calls again and again and should_stop
\* lets an invocation start.
InvocationProgress ==
    \E k \in 1..FMax, h \in LoopHits, moved \in BOOLEAN : BloomDefrag(k, h, TRUE, moved)

SpecProgress == InitDefrag /\ [][NextInvocations]_vars /\ WF_vars(InvocationProgress)

\* Adds run between the invocations of a pass as well.
NextInterleaved ==
    \/ NewReserved(8, 8, 1, 1, FIXED_SEED, FALSE)
    \/ \E item \in Items : AddItem(item, FALSE)
    \/ \E k \in 0..FMax, h \in LoopHits, moved \in BOOLEAN : BloomDefrag(k, h, TRUE, moved)

SpecInterleaved == InitDefrag /\ [][NextInterleaved]_vars

\* ------------------------------------------------------------ validated operations
\* Every operation runs with validate_size_limit set: a node that takes client
\* commands only.
NextValidated ==
    \/ \E fp \in FpRates, tr \in TighteningRatios, c \in Capacities,
          e \in Expansions, s \in Seeds :
          NewReserved(fp, tr, c, e, s, TRUE)
    \/ \E item \in Items : AddItem(item, TRUE)
    \/ Free
    \/ CreateCopyFrom
    \/ \E o \in (IF obj = <<>> THEN {} ELSE CraftedObjects(obj[1])) :
          DecodeObject(encode_object(o), TRUE)
    \/ FreeCopy

SpecValidated == Init /\ [][NextValidated]_vars

\* ------------------------------------------------------------ configured limits
\* bloom-memory-usage-limit is set before the first command: below, at and above
\* the size of the smallest object.
ConfiguredLimits == {LowMemoryLimit, LowMemoryLimit + 1, MemoryLimit}
LargeCapacity == 8

InitLimits ==
    /\ obj = <<>>
    /\ copy = <<>>
    /\ added = {}
    /\ last = Last("init", <<>>, "Ok", FALSE)
    /\ metrics = ZeroMetrics
    /\ memory_limit \in ConfiguredLimits
    /\ replica = <<>>
    /\ repl = <<>>
    /\ defrag = NoDefrag(BLOOM_DEFRAG_DEFAULT)
    /\ defaults = DefaultFloats

NextLimits ==
    \/ \E fp \in FpRates, tr \in TighteningRatios, c \in Capacities \cup {LargeCapacity},
          e \in Expansions, s \in Seeds, v \in BOOLEAN :
          NewReserved(fp, tr, c, e, s, v)
    \/ \E item \in Items, v \in BOOLEAN : AddItem(item, v)
    \/ Free

SpecLimits == InitLimits /\ [][NextLimits]_vars

\* ------------------------------------------------------------ copies
\* The first command on the source after COPY, the copy staying under its key.
AddItemAfterCopy(item, validate) ==
    /\ obj # <<>> /\ copy # <<>> /\ last.op = "create_copy_from"
    /\ \E r \in {add_item(metrics, obj[1], item, validate)} :
          /\ obj' = <<r.obj>>
          /\ added' = IF r.ret = "Ok1" THEN added \cup {item} ELSE added
          /\ Outcome("add_item", item, validate, r)
    /\ UNCHANGED <<copy, memory_limit, replica, repl, defrag, defaults>>

\* DEL of the key that holds the copy.
DeleteCopy ==
    /\ copy # <<>> /\ ~SecondKeyBusy
    /\ copy' = <<>>
    /\ metrics' = DropBloomObject(metrics, copy[1])
    /\ last' = Last("free", <<>>, "Ok", FALSE)
    /\ UNCHANGED <<obj, added, memory_limit, replica, repl, defrag, defaults>>

NextCopy ==
    \/ \E fp \in FpRates, tr \in TighteningRatios, c \in Capacities,
          e \in Expansions, s \in Seeds :
          NewReserved(fp, tr, c, e, s, FALSE)
    \/ \E item \in Items : AddItem(item, FALSE)
    \/ copy = <<>> /\ CreateCopyFrom
    \/ \E item \in Items : AddItemAfterCopy(item, FALSE)
    \/ DeleteCopy

SpecCopy == Init /\ [][NextCopy]_vars

\* ------------------------------------------------------------ client options
\* Option lists of BF.INSERT that a primary emits to its replicas, here sent by
\* an ordinary client.
ReplicationOptions ==
    {<<KW_TIGHTENING, F64ToString(4)>>} \cup {<<KW_SEED, <<s>>>> : s \in Seeds}

NextClient ==
    \/ NextRepl
    \/ \E options \in ReplicationOptions, items \in ItemLists : BfInsert(options, items)

SpecClient == Init /\ [][NextClient]_vars

\* ------------------------------------------------------------ add commands
\* The commands that add items, on objects reserved with one error rate.
NextAdd ==
    \/ \E c \in Capacities, options \in ReserveOptions : BfReserve(8, c, options)
    \/ \E item \in Items : BfAdd(item)
    \/ \E items \in ItemPairs : BfMAdd(items)
    \/ \E items \in ItemLists : BfInsert(<<>>, items)
    \/ ReplicaApply

SpecAdd == Init /\ [][NextAdd]_vars

\* ------------------------------------------------------------ planning
ScaleTargets == {-1} \cup 0..(I64Max + 1)
PlannerLimits == ConfiguredLimits \cup {HighMemoryLimit}

\* One call of the planner; last.input holds its arguments, last.reply its result.
Plan(cap, fp_rate, validate_scale_to, tightening_ratio, expansion, checked) ==
    /\ \E r \in {calculate_max_scaled_capacity(cap, fp_rate, validate_scale_to,
                                               tightening_ratio, expansion, checked)} :
          last' = [Last("calculate_max_scaled_capacity",
                        <<cap, fp_rate, validate_scale_to, tightening_ratio, expansion>>,
                        IF r.err = "" THEN "Ok" ELSE r.err, FALSE)
                      EXCEPT !.reply = r]
    /\ UNCHANGED <<obj, copy, added, metrics, memory_limit, replica, repl, defrag, defaults>>

InitPlanner ==
    /\ obj = <<>>
    /\ copy = <<>>
    /\ added = {}
    /\ last = Last("init", <<>>, "Ok", FALSE)
    /\ metrics = ZeroMetrics
    /\ memory_limit \in PlannerLimits
    /\ replica = <<>>
    /\ repl = <<>>
    /\ defrag = NoDefrag(BLOOM_DEFRAG_DEFAULT)
    /\ defaults = DefaultFloats

NextPlanner ==
    \E c \in Capacities, fp \in FpRates, t \in ScaleTargets, tr \in TighteningRatios,
       e \in BLOOM_EXPANSION_MIN..BLOOM_EXPANSION_MAX, checked \in BOOLEAN :
       Plan(c, fp, t, tr, e, checked)

SpecPlanner == InitPlanner /\ [][NextPlanner]_vars

\* ------------------------------------------------------------ read commands
ReadCommands ==
    {<<BF_EXISTS, KEY_NAME, item>> : item \in Items}
    \cup {<<BF_MEXISTS, KEY_NAME>> \o items : items \in ItemLists}
    \cup {<<BF_CARD, KEY_NAME>>, <<BF_INFO, KEY_NAME>>}
    \cup {<<BF_INFO, KEY_NAME, field>> :
             field \in {KW_CAPACITY, KW_SIZE, KW_FILTERS, KW_ITEMS, KW_EXPANSION, KW_SEED}}

\* A read command of a client on the primary.
BfRead(cmd) ==
    /\ repl = <<>>
    /\ ClientCommand("read", cmd)
    /\ UNCHANGED <<copy, added, metrics, memory_limit, replica, defrag, defaults>>

NextRead ==
    \/ \E c \in Capacities, options \in ReserveOptions : BfReserve(8, c, options)
    \/ \E item \in Items : BfAdd(item)
    \/ \E cmd \in ReadCommands : BfRead(cmd)
    \/ ReplicaApply

SpecRead == Init /\ [][NextRead]_vars

\* ------------------------------------------------------------ NOCREATE
\* Option lists of BF.INSERT that hold NOCREATE among other valid options.
NoCreateOptions ==
    {<<KW_NOCREATE>>,
     <<KW_NOCREATE, KW_CAPACITY, IntToString(2)>>,
     <<KW_EXPANSION, IntToString(2), KW_NOCREATE>>,
     <<KW_ERROR, F64ToString(4), KW_NOCREATE, KW_NONSCALING>>}

\* BF.INSERT with options and no ITEMS token.
BfInsertOptions(options) ==
    /\ repl = <<>>
    /\ ClientCommand("BF.INSERT", <<BF_INSERT, KEY_NAME>> \o options)
    /\ UNCHANGED <<copy, added, metrics, memory_limit, replica, defrag, defaults>>

NextNoCreate ==
    \/ \E c \in Capacities, options \in ReserveOptions : BfReserve(8, c, options)
    \/ \E item \in Items : BfAdd(item)
    \/ \E options \in NoCreateOptions \cup {<<>>},
          items \in {<<>>, <<<<1>>, <<2>>>>} \cup {<<item>> : item \in Items} :
          BfInsert(options, items)
    \/ \E options \in NoCreateOptions \cup {<<>>} : BfInsertOptions(options)
    \/ ReplicaApply

SpecNoCreate == Init /\ [][NextNoCreate]_vars

\* ------------------------------------------------------------ non-scaling objects
\* BloomObject::item_exists on the object under the key.
ItemExists(item) ==
    /\ obj # <<>> /\ ~SecondKeyBusy
    /\ last' = Last("item_exists", item, IF item_exists(obj[1], item) THEN "true" ELSE "false",
                    FALSE)
    /\ UNCHANGED <<obj, copy, added, metrics, memory_limit, replica, repl, defrag, defaults>>

\* BloomObject::encode_object of the object under the key.
EncodeObject ==
    /\ obj # <<>> /\ ~SecondKeyBusy
    /\ last' = Last("encode_object", encode_object(obj[1]), "Ok", FALSE)
    /\ UNCHANGED <<obj, copy, added, metrics, memory_limit, replica, repl, defrag, defaults>>

\* An object created with expansion 0 and what the claim lets happen to it; the
\* key is written between defrag passes only.
NextNonScaling ==
    \/ \E c \in Capacities, s \in Seeds :
          ~defrag.in_pass /\ NewReserved(8, 8, c, 0, s, TRUE)
    \/ \E item \in Items, v \in BOOLEAN : ~defrag.in_pass /\ AddItem(item, v)
    \/ \E item \in Items : ItemExists(item)
    \/ CreateCopyFrom
    \/ FreeCopy
    \/ EncodeObject
    \/ \E k \in 0..1, h \in 0..3, vec_moved, moved \in BOOLEAN :
          ~SecondKeyBusy /\ BloomDefrag(k, h, vec_moved, moved)

SpecNonScaling == Init /\ [][NextNonScaling]_vars

\* ------------------------------------------------------------ scale-out
\* Error rates down to an eighth, so that the tightened rate reaches the minimum
\* at the first, second or third scale-out.
ScaleOutRates == {2, 4, 8}

NextScaleOut ==
    \/ \E fp \in ScaleOutRates, c \in Capacities, e \in Expansions :
          NewReserved(fp, 8, c, e, FIXED_SEED, FALSE)
    \/ \E item \in Items, v \in BOOLEAN : AddItem(item, v)
    \/ Free

SpecScaleOut == Init /\ [][NextScaleOut]_vars

\* ------------------------------------------------------------ emitted commands
\* BF.INSERT option lists that create with a capacity, an error rate and E = 0.
EmitOptions ==
    {<<>>, <<KW_CAPACITY, IntToString(2), KW_ERROR, F64ToString(4), KW_NONSCALING>>}

NextEmit ==
    \/ \E c \in Capacities, options \in ReserveOptions : BfReserve(8, c, options)
    \/ \E item \in Items : BfAdd(item)
    \/ \E items \in ItemPairs : BfMAdd(items)
    \/ \E options \in EmitOptions, items \in ItemLists : BfInsert(options, items)
    \/ \E options \in EmitOptions : BfInsertOptions(options)
    \/ ReplicaApply

SpecEmit == Init /\ [][NextEmit]_vars

\* ------------------------------------------------------------ string configs
CONFIG_FP_RATE == "bloom-fp-rate"
CONFIG_TIGHTENING_RATIO == "bloom-tightening-ratio"

\* (min..max).contains(&value): the lower bound is included.
RangeContains(value, min, max) == value >= min /\ value < max

\* configs::on_string_config_set: [err, defaults].
on_string_config_set(name, text) ==
    LET value == ParseF64(text)
    IN  IF ~value.ok THEN [err |-> "Invalid floating-point value", defaults |-> defaults]
        ELSE IF name = CONFIG_FP_RATE
        THEN IF ~RangeContains(value.val, FP_ZERO, FP_ONE)
             THEN [err |-> "ERROR_RATE_RANGE", defaults |-> defaults]
             ELSE [err |-> "", defaults |-> [defaults EXCEPT !.fp_rate = value.val]]
        ELSE IF name = CONFIG_TIGHTENING_RATIO
        THEN IF ~RangeContains(value.val, FP_ZERO, FP_ONE)
             THEN [err |-> "ERROR_RATIO_RANGE", defaults |-> defaults]
             ELSE [err |-> "", defaults |-> [defaults EXCEPT !.tightening_ratio = value.val]]
        ELSE [err |-> "Unknown configuration parameter", defaults |-> defaults]

\* Texts of a CONFIG SET: 0, 0.25, 1, 1.5 and a word.
ConfigTexts == {<<48>>, <<48, 46, 50, 53>>, <<49>>, <<49, 46, 53>>, <<120>>}

\* CONFIG SET of one of the two string configs.
ConfigSet(name, text) ==
    LET r == on_string_config_set(name, text)
    IN  /\ defaults' = r.defaults
        /\ last' = Last("CONFIG SET", <<name, text>>, IF r.err = "" THEN "Ok" ELSE r.err, FALSE)
        /\ UNCHANGED <<obj, copy, added, metrics, memory_limit, replica, repl, defrag>>

\* BF.ADD on a key that holds an object.
BfAddToReserved(item) == obj # <<>> /\ BfAdd(item)

\* The configs are set between commands; items are added to a reserved object, which
\* reads the tightening ratio of its creation and no default.
NextConfig ==
    \/ \E name \in {CONFIG_FP_RATE, CONFIG_TIGHTENING_RATIO}, text \in ConfigTexts :
          ConfigSet(name, text)
    \/ \E fp_rate \in {8}, cap \in {1} : BfReserve(fp_rate, cap, <<>>)
    \/ \E item \in {<<1>>, <<2>>} : BfAddToReserved(item)
    \/ ReplicaApply

SpecConfig == Init /\ [][NextConfig]_vars

\* ------------------------------------------------------------ properties
\* The objects that exist in a state.
Objects == {obj[i] : i \in DOMAIN obj} \cup {copy[i] : i \in DOMAIN copy}

\* The step is an add_item on the object under the key.
AddItemStep == ~SecondKeyBusy /\ obj # <<>> /\ last'.op = "add_item"

\* C1: no false negatives: every item for which an add_item returned 1 is
\* reported present by item_exists, in every state, after scale-outs and after
\* failing calls as well.
C1_NoFalseNegatives ==
    obj # <<>> => \A x \in added : item_exists(obj[1], x)

\* An item added to the first filter is still found after two scale-outs and a
\* failing add.
C1_Witness ==
    /\ obj # <<>> /\ num_filters(obj[1]) = FMax
    /\ last.op = "add_item" /\ last.ret = "MaxNumScalingFilters"
    /\ \E x \in added : check(obj[1].filters[1], x) /\ ~check(obj[1].filters[FMax], x)

\* A non-scaling object whose single filter is full.
NonScalingFull(o) ==
    o.expansion = 0 /\ Len(o.filters) = 1
    /\ o.filters[1].num_items = o.filters[1].capacity

\* C2 as stated: every add_item on a full non-scaling object fails with
\* NonScalingFilterFull and leaves the object unchanged, whatever the item is.
C2_AnyItemFails ==
    [][(AddItemStep /\ NonScalingFull(obj[1]))
         => (last'.ret = "NonScalingFilterFull" /\ obj' = obj)]_vars

\* C2 amended: on a full non-scaling object add_item leaves the object unchanged;
\* it fails with NonScalingFilterFull for an item the filter does not report,
\* and returns 0 for an item the filter reports as present.
C2_NonScalingFull ==
    [][(AddItemStep /\ NonScalingFull(obj[1]))
         => /\ obj' = obj
            /\ last'.ret = IF item_exists(obj[1], last'.input)
                           THEN "Ok0" ELSE "NonScalingFilterFull"]_vars

\* An add on a full non-scaling object has failed.
C2_Witness ==
    /\ obj # <<>> /\ NonScalingFull(obj[1])
    /\ last.op = "add_item" /\ last.ret = "NonScalingFilterFull"

\* C3: when some filter reports the item, add_item returns 0 and changes neither
\* the object (bits, n, filters) nor the metrics.
C3_PresentItemIsNoOp ==
    [][(AddItemStep /\ item_exists(obj[1], last'.input))
         => (last'.ret = "Ok0" /\ obj' = obj /\ metrics' = metrics)]_vars

\* An item that was never added is reported by a filter, and add_item returned 0.
C3_Witness ==
    /\ obj # <<>> /\ last.op = "add_item" /\ last.ret = "Ok0"
    /\ last.input \notin added
    /\ item_exists(obj[1], last.input)

\* C4: every object has at least one filter and cardinality() <= capacity().
C4_FiltersAndCardinality ==
    \A o \in Objects : num_filters(o) >= 1 /\ cardinality(o) <= capacity(o)

\* C5: every filter except the last is full.
C5_NonLastFiltersFull ==
    \A o \in Objects : \A i \in 1..(Len(o.filters) - 1) :
        o.filters[i].num_items = o.filters[i].capacity

\* C6: all filters share the seed of filter 0, the seed is FIXED_SEED exactly when
\* is_seed_random is false, and a snapshot load of a fixed-seed object with
\* another seed in a filter fails.
C6_Seeds ==
    /\ \A o \in Objects : \A i \in 1..Len(o.filters) :
          /\ o.filters[i].seed = o.filters[1].seed
          /\ (o.filters[i].seed = FIXED_SEED) <=> ~o.is_seed_random
    /\ (last.op = "load_from_rdb" /\ Len(last.input) >= 5 /\ last.input[5] # 1
        /\ last.ret = "Some")
         => \A i \in 1..Len(copy[1].filters) : copy[1].filters[i].seed = FIXED_SEED

\* Equality on every encoded field.
SameObject(a, b) ==
    /\ a.expansion = b.expansion /\ a.fp_rate = b.fp_rate
    /\ a.tightening_ratio = b.tightening_ratio
    /\ a.is_seed_random = b.is_seed_random
    /\ a.filters = b.filters

\* C9: decode_object(encode_object(obj)), without size validation, succeeds and
\* yields an object equal to obj on every field, for every number of filters up
\* to FMax.
C9_RoundTrip ==
    (obj # <<>> /\ last.op = "decode_object" /\ ~last.validate
     /\ last.input = encode_object(obj[1]))
      => (last.ret = "Ok" /\ copy # <<>> /\ SameObject(copy[1], obj[1]))

InOpenUnit(x) == x > FP_ZERO /\ x < FP_ONE

\* memory_usage of the object a payload describes.
ReconstructedMemory(v) == memory_usage([v EXCEPT !.vec_cap = Len(v.filters)])

\* The checks of decode_object named by C10, on the payload encode_object(v);
\* counted says whether the size check is only claimed under the filter-count cap.
DecodeRejects(v, counted) ==
    /\ ~InOpenUnit(v.fp_rate) => (last.ret = "ErrorRateRange" /\ copy = <<>>)
    /\ ~InOpenUnit(v.tightening_ratio) => (last.ret # "Ok" /\ copy = <<>>)
    /\ v.expansion \notin 0..BLOOM_EXPANSION_MAX => (last.ret # "Ok" /\ copy = <<>>)
    /\ (/\ last.validate
        /\ InOpenUnit(v.fp_rate) /\ InOpenUnit(v.tightening_ratio)
        /\ v.expansion \in 0..BLOOM_EXPANSION_MAX
        /\ counted => Len(v.filters) < FMax
        /\ ReconstructedMemory(v) > memory_limit)
         => (last.ret = "ExceedsMaxBloomSize" /\ copy = <<>>)

DecodeRejectsHeader ==
    /\ last.input = <<>> => (last.ret = "DecodeBloomFilterFailed" /\ copy = <<>>)
    /\ (last.input # <<>> /\ last.input[1] # 1)
         => (last.ret = "DecodeUnsupportedVersion" /\ copy = <<>>)

InSync ==
    IF obj = <<>> THEN replica = <<>>
    ELSE replica # <<>> /\ SameObject(replica[1], obj[1])

\* C7: after every BF.RESERVE, BF.ADD, BF.MADD or BF.INSERT on the primary, once
\* the replica has applied what the primary emitted, the replica holds an object
\* equal to the primary's.
C7_ReplicaEqualsPrimary == repl = <<>> => InSync

\* C8: after a BF.LOAD that created the key on the primary, once the replica has
\* applied the emitted command, the replica's object has the same number of
\* filters, first-filter capacity, cardinality and bits as the primary's.
C8_LoadReplicated ==
    (repl = <<>> /\ last.op = "BF.LOAD" /\ last.ret = "Ok")
      => /\ replica # <<>>
         /\ num_filters(replica[1]) = num_filters(obj[1])
         /\ replica[1].filters[1].capacity = obj[1].filters[1].capacity
         /\ cardinality(replica[1]) = cardinality(obj[1])
         /\ \A i \in 1..num_filters(obj[1]) :
               replica[1].filters[i].bits = obj[1].filters[i].bits

\* The filters of the object under the key.
FiltersOf(v) == IF v = <<>> THEN <<>> ELSE v[1].filters

\* The last step was a bloom_defrag that returned Done.
DefragDone == last.op = "bloom_defrag" /\ last.ret = "Done"

\* The indices a pass has processed are 0 .. cursor-1, each once, in order.
VisitedInOrder == defrag.visited = [i \in 1..defrag.cursor |-> i - 1]

\* C11 as stated: whatever the configuration, an invocation that returns Done
\* ends a pass that processed the indices 0 .. L-1 and left the cursor at L.
C11_DoneAtCursorL ==
    DefragDone => (defrag.cursor = Len(FiltersOf(obj)) /\ VisitedInOrder)

\* C11 amended: with defrag enabled, the invocations of a pass process the indices
\* 0 .. L-1 each once in increasing order, Done is returned with cursor = L, no
\* invocation changes the filters, and, when should_stop lets an invocation start
\* again and again, every pass ends.
C11_DefragPass ==
    /\ [](defrag.enabled =>
            /\ VisitedInOrder
            /\ defrag.in_pass => defrag.cursor < Len(FiltersOf(obj))
            /\ DefragDone => defrag.cursor = Len(FiltersOf(obj)))
    /\ [][last'.op = "bloom_defrag" => FiltersOf(obj') = FiltersOf(obj)]_vars
    /\ (defrag.in_pass ~> (DefragDone /\ defrag.cursor = Len(FiltersOf(obj))))

\* A pass over FMax filters has ended in an invocation that resumed from a saved
\* cursor.
C11_Witness ==
    /\ DefragDone /\ defrag.enabled /\ defrag.resumed
    /\ Len(FiltersOf(obj)) = FMax /\ defrag.cursor = FMax

\* C12: with every operation validated, memory_usage() of every object stays
\* within the memory limit in every state, the state after a scale-out included.
C12_MemoryWithinLimit ==
    \A o \in Objects : memory_usage(o) <= memory_limit

\* The size new_reserved is to check: the object, one pointer, the filter.
SizeToCreate(cap, fp_rate) ==
    SIZE_OF_BLOOM_OBJECT + SIZE_OF_BOX + FilterComputeSize(cap, fp_rate)

\* C13: new_reserved with validate_size set fails with ExceedsMaxBloomSize,
\* creating no object and changing no metric, whenever the object, one pointer
\* and the computed filter size exceed the memory limit; in every other case,
\* validate_size unset included, the same arguments create the object, whose
\* memory_usage() is that size.
C13_CreateWithinLimit ==
    [][\A fp \in FpRates, tr \in TighteningRatios, c \in Capacities \cup {LargeCapacity},
          e \in Expansions, s \in Seeds, v \in BOOLEAN :
          NewReserved(fp, tr, c, e, s, v) =>
              IF v /\ SizeToCreate(c, fp) > memory_limit
              THEN /\ last'.ret = "ExceedsMaxBloomSize"
                   /\ obj' = <<>>
                   /\ metrics' = metrics
              ELSE /\ last'.ret = "Ok"
                   /\ obj' # <<>>
                   /\ memory_usage(obj'[1]) = SizeToCreate(c, fp)
                   /\ metrics'.num_objects = metrics.num_objects + 1]_vars

\* A validated creation of the large filter was refused under a limit that the
\* smallest object fits, and nothing was created or counted.
C13_Witness ==
    /\ last.op = "new_reserved" /\ last.validate
    /\ last.ret = "ExceedsMaxBloomSize"
    /\ obj = <<>>
    /\ metrics = ZeroMetrics
    /\ memory_limit = LowMemoryLimit + 1

\* C14: no object ever holds more than FMax filters; add_item on a scaling object
\* with FMax filters, the last one full, fails with MaxNumScalingFilters and
\* appends nothing; and decode_object accepts the encoding of every object that
\* add_item has produced.
C14_FilterCap ==
    /\ [](\A o \in Objects : num_filters(o) <= FMax)
    /\ [][(/\ AddItemStep
           /\ obj[1].expansion > 0
           /\ num_filters(obj[1]) = FMax
           /\ obj[1].filters[FMax].num_items = obj[1].filters[FMax].capacity
           /\ ~item_exists(obj[1], last'.input))
            => (last'.ret = "MaxNumScalingFilters" /\ obj' = obj)]_vars
    /\ []((/\ obj # <<>> /\ last.op = "decode_object"
           /\ last.input = encode_object(obj[1])
           /\ last.validate => ReconstructedMemory(obj[1]) <= memory_limit)
            => (last.ret = "Ok" /\ copy # <<>>))

\* E^i over the integers.
RECURSIVE ExpansionPow(_, _)
ExpansionPow(e, i) == IF i = 0 THEN 1 ELSE e * ExpansionPow(e, i - 1)

\* c_0 (1 + E + ... + E^(l-1))
RECURSIVE GeometricSum(_, _, _)
GeometricSum(c0, e, l) ==
    IF l = 0 THEN 0 ELSE GeometricSum(c0, e, l - 1) + c0 * ExpansionPow(e, l - 1)

C16_Cardinality ==
    /\ [](obj # <<>> =>
            /\ cardinality(obj[1]) = SumSeq([i \in 1..Len(obj[1].filters) |->
                                                obj[1].filters[i].num_items])
            /\ cardinality(obj[1]) = Cardinality(added))
    /\ [][AddItemStep =>
             cardinality(obj'[1]) =
                 cardinality(obj[1]) + (IF last'.ret = "Ok1" THEN 1 ELSE 0)]_vars

\* Items were counted in two filters, and a later add that failed left the count.
C16_Witness ==
    /\ obj # <<>> /\ Len(obj[1].filters) >= 2
    /\ obj[1].filters[1].num_items >= 1 /\ obj[1].filters[2].num_items >= 1
    /\ cardinality(obj[1]) = Cardinality(added)
    /\ last.op = "add_item" /\ last.ret \notin {"Ok0", "Ok1"}

\* C17: create_copy_from(x) yields an object with the memory_usage() and every
\* field of x and leaves x unchanged; add_item calls on x after the copy do not
\* change the copy.
C17_CopyIsIndependent ==
    /\ [](last.op = "create_copy_from" =>
            /\ obj # <<>> /\ copy # <<>>
            /\ memory_usage(copy[1]) = memory_usage(obj[1])
            /\ SameObject(copy[1], obj[1]))
    /\ [][last'.op = "create_copy_from" => obj' = obj]_vars
    /\ [][(copy # <<>> /\ last'.op = "add_item") => copy' = copy]_vars

\* The source has scaled out after the copy was taken; the copy still has the
\* one filter and the items it was taken with.
C17_Witness ==
    /\ obj # <<>> /\ copy # <<>>
    /\ last.op = "add_item" /\ last.ret = "Ok1"
    /\ Len(obj[1].filters) = 2 /\ Len(copy[1].filters) = 1
    /\ cardinality(copy[1]) = 1 /\ cardinality(obj[1]) = 2
    /\ memory_usage(copy[1]) < memory_usage(obj[1])

\* C18: BF.INSERT with TIGHTENING or SEED sent by an ordinary client (not the
\* replication link) is rejected, and creates or changes no object.
C18_ReplicationOnlyOptions ==
    [][\A options \in ReplicationOptions, items \in ItemLists :
          BfInsert(options, items) => (last'.ret # "Ok" /\ obj' = obj)]_vars

\* The object after the first n items were given to add_item one after another.
RECURSIVE AfterAdds(_, _, _)
AfterAdds(o, items, n) ==
    IF n = 0 THEN o
    ELSE add_item(ZeroMetrics, AfterAdds(o, items, n - 1), items[n], TRUE).obj

\* What add_item answers for item n after the items before it.
NthResult(o, items, n) ==
    add_item(ZeroMetrics, AfterAdds(o, items, n - 1), items[n], TRUE).ret

\* The index of the first item add_item fails on, Len(items) + 1 when there is none.
FirstFailing(o, items) ==
    LET failing == {n \in 1..Len(items) : NthResult(o, items, n) \notin {"Ok0", "Ok1"}}
    IN  IF failing = {} THEN Len(items) + 1
        ELSE CHOOSE n \in failing : \A k \in failing : n <= k

\* The reply and the object a multi-item add on an existing object must give.
StopsAtFirstError(items) ==
    LET f == FirstFailing(obj[1], items)
    IN  /\ last'.reply.array
        /\ last'.reply.ints =
               [n \in 1..(f - 1) |-> IF NthResult(obj[1], items, n) = "Ok1" THEN 1 ELSE 0]
        /\ last'.reply.err =
               (IF f <= Len(items) THEN NthResult(obj[1], items, f) ELSE "")
        /\ obj' = <<AfterAdds(obj[1], items, f - 1)>>

\* C19: BF.MADD and BF.INSERT on an existing object process the items in order
\* and stop at the first add_item error: the reply holds one 0/1 per item before
\* the failing one, then the error value; later items are neither added nor
\* reported, earlier adds stay. BF.ADD hands back the integer or the error itself.
C19_StopAtFirstError ==
    /\ [][\A items \in ItemPairs :
             (last'.op = "BF.MADD" /\ obj # <<>> /\ BfMAdd(items))
                => StopsAtFirstError(items)]_vars
    /\ [][\A items \in ItemLists :
             (last'.op = "BF.INSERT" /\ obj # <<>> /\ BfInsert(<<>>, items))
                => StopsAtFirstError(items)]_vars
    /\ [][\A item \in Items :
             (last'.op = "BF.ADD" /\ obj # <<>> /\ BfAdd(item)) =>
                 /\ ~last'.reply.array
                 /\ IF NthResult(obj[1], <<item>>, 1) \in {"Ok0", "Ok1"}
                    THEN /\ last'.reply.err = ""
                         /\ last'.reply.ints =
                              <<IF NthResult(obj[1], <<item>>, 1) = "Ok1" THEN 1 ELSE 0>>
                    ELSE /\ last'.reply.ints = <<>>
                         /\ last'.reply.err = NthResult(obj[1], <<item>>, 1)
                         /\ last'.ret = last'.reply.err
                         /\ obj' = obj]_vars

\* A multi-item add whose first item was added and whose second failed: the reply
\* is one integer and the error, and the first item is in the object.
C19_Witness ==
    /\ last.op \in {"BF.MADD", "BF.INSERT"}
    /\ last.reply.array /\ last.reply.ints = <<1>> /\ last.reply.err # ""
    /\ obj # <<>> /\ cardinality(obj[1]) >= 1

\* Filter k (counted from 1) of a planned object is valid: its error rate is
\* above zero and the object with k filters is within the memory limit.
PlannedSize(c, fp_rate, tr, e, k) ==
    compute_size(PlannedVecCapacity(k - 1))
    + SumSeq([i \in 1..k |->
                 FilterComputeSize(c * ExpansionPow(e, i - 1),
                                   calculate_fp_rate(fp_rate, i - 1, tr).rate)])
PlannedErrorAt(c, fp_rate, tr, e, k) ==
    IF ~calculate_fp_rate(fp_rate, k - 1, tr).ok THEN "ValidateScaleToFalsePositiveInvalid"
    ELSE IF PlannedSize(c, fp_rate, tr, e, k) > memory_limit
    THEN "ValidateScaleToExceedsMaxSize"
    ELSE ""

\* The number of valid filters: the first k whose successor is not valid.
ValidFilters(c, fp_rate, tr, e) ==
    CHOOSE k \in 0..MaxPlanned :
        /\ \A j \in 1..k : PlannedErrorAt(c, fp_rate, tr, e, j) = ""
        /\ PlannedErrorAt(c, fp_rate, tr, e, k + 1) # ""

\* What the planner is to return for (c, fp_rate, target, tr, e).
PlannedResult(c, fp_rate, t, tr, e) ==
    LET kmax == ValidFilters(c, fp_rate, tr, e)
        enough == {k \in 0..kmax : GeometricSum(c, e, k) >= t}
    IN  IF t = -1 THEN PlanOk(GeometricSum(c, e, kmax))
        ELSE IF enough # {}
        THEN PlanOk(GeometricSum(c, e, CHOOSE k \in enough : \A j \in enough : k <= j))
        ELSE PlanErr(PlannedErrorAt(c, fp_rate, tr, e, kmax + 1))

\* C20: with a target other than -1 the planner returns the first cumulative
\* capacity c + cE + cE^2 + ... that reaches the target when one is reachable,
\* and fails with ValidateScaleToExceedsMaxSize or
\* ValidateScaleToFalsePositiveInvalid otherwise; with target -1 it returns the
\* last valid cumulative capacity m, and then target m returns m and target
\* m + 1 fails with one of the two errors.
C20_Planner ==
    last.op = "calculate_max_scaled_capacity" =>
        LET c == last.input[1]
            fp == last.input[2]
            t == last.input[3]
            tr == last.input[4]
            e == last.input[5]
        IN  /\ last.reply = PlannedResult(c, fp, t, tr, e)
            /\ t = -1 =>
                 \A checked \in BOOLEAN :
                    /\ last.reply.err = ""
                    /\ calculate_max_scaled_capacity(c, fp, last.reply.ints[1], tr, e, checked)
                         = PlanOk(last.reply.ints[1])
                    /\ calculate_max_scaled_capacity(c, fp, last.reply.ints[1] + 1, tr, e,
                                                     checked).err
                         \in {"ValidateScaleToExceedsMaxSize",
                              "ValidateScaleToFalsePositiveInvalid"}

\* C21: the planner agrees with allocation: an object with expansion >= 1 that
\* add_item, validating sizes, has scaled to k filters has a cumulative capacity
\* the planner accepts; and when add_item fails with ExceedsMaxBloomSize or
\* FalsePositiveReachesZero, the planner with target -1 returns the capacity()
\* the object has then.
C21_PlannerAgrees ==
    (obj # <<>> /\ obj[1].expansion >= 1) =>
        LET o == obj[1]
            c == o.filters[1].capacity
        IN  \A checked \in BOOLEAN :
              /\ calculate_max_scaled_capacity(c, o.fp_rate, capacity(o),
                                               o.tightening_ratio, o.expansion, checked)
                   = PlanOk(capacity(o))
              /\ (last.op = "add_item"
                  /\ last.ret \in {"ExceedsMaxBloomSize", "FalsePositiveReachesZero"})
                   => calculate_max_scaled_capacity(c, o.fp_rate, -1, o.tightening_ratio,
                                                    o.expansion, checked)
                        = PlanOk(capacity(o))

\* C22: BF.RESERVE and BF.LOAD on a key that holds a bloom object fail, BF.LOAD
\* with KeyExists, leave the object unchanged, emit nothing to the replicas and
\* publish no keyspace event.
C22_ExistingKeyRefused ==
    [][(obj # <<>> /\ repl = <<>> /\ last'.op \in {"BF.RESERVE", "BF.LOAD"})
         => /\ last'.ret # "Ok"
            /\ last'.op = "BF.LOAD" => last'.ret = "KeyExists"
            /\ obj' = obj
            /\ repl' = <<>>
            /\ last'.events = <<>>]_vars

\* A BF.LOAD on a key that holds an object with an item was refused.
C22_Witness ==
    /\ obj # <<>> /\ cardinality(obj[1]) >= 1
    /\ last.op = "BF.LOAD" /\ last.ret = "KeyExists"
    /\ repl = <<>> /\ last.events = <<>>

\* C23: the read commands never change the key-space: on a missing key BF.EXISTS
\* and BF.MEXISTS return 0 for every item and BF.CARD returns 0, and none of
\* BF.EXISTS, BF.MEXISTS, BF.CARD and BF.INFO creates a key or changes an object.
C23_ReadsChangeNothing ==
    [][\A cmd \in ReadCommands :
          (last'.op = "read" /\ BfRead(cmd)) =>
              /\ obj' = obj
              /\ repl' = <<>> /\ last'.events = <<>>
              /\ (obj = <<>> /\ cmd[1] \in {BF_EXISTS, BF_MEXISTS, BF_CARD}) =>
                    /\ last'.ret = "Ok"
                    /\ Len(last'.reply.ints) = Max(1, Len(cmd) - 2)
                    /\ \A i \in 1..Len(last'.reply.ints) : last'.reply.ints[i] = 0]_vars

\* BF.MEXISTS on a missing key has answered 0 for both items and no key exists.
C23_Witness ==
    /\ obj = <<>> /\ last.op = "read"
    /\ last.reply = [array |-> TRUE, ints |-> <<0, 0>>, err |-> ""]

\* The command failed with ret and changed nothing.
RefusedWith(ret) ==
    /\ last'.ret = ret
    /\ obj' = obj
    /\ repl' = <<>> /\ last'.events = <<>>

StrictlyInside(value) == value > FP_ZERO /\ value < FP_ONE
C25_DefaultsInsideRange ==
    /\ StrictlyInside(defaults.fp_rate)
    /\ StrictlyInside(defaults.tightening_ratio)
    /\ (obj # <<>> /\ last.op = "BF.RESERVE" /\ last.ret = "Ok")
         => StrictlyInside(obj[1].tightening_ratio)

\* C26: a non-scaling object whose filter is full stays so: after any add_item,
\* item_exists, copy, encode or defrag invocation it is still the same single
\* filter with the same n, c and bits, and no add_item on it returns 1.
SameContents(o, p) ==
    /\ p.expansion = o.expansion
    /\ Len(p.filters) = Len(o.filters)
    /\ \A i \in 1..Len(o.filters) :
          /\ p.filters[i].num_items = o.filters[i].num_items
          /\ p.filters[i].capacity = o.filters[i].capacity
          /\ BloomOf(p.filters[i]) = BloomOf(o.filters[i])
C26_NonScalingFullAbsorbing ==
    [][(obj # <<>> /\ NonScalingFull(obj[1]))
         => /\ obj' # <<>> /\ NonScalingFull(obj'[1])
            /\ SameContents(obj[1], obj'[1])
            /\ added' = added
            /\ (last'.op = "add_item") => (last'.ret \in {"Ok0", "NonScalingFilterFull"})]_vars

\* A defrag pass over a full non-scaling object has completed, after an add on it
\* had failed.
C26_Witness ==
    /\ obj # <<>> /\ NonScalingFull(obj[1]) /\ obj[1].filters[1].capacity = 2
    /\ last.op = "bloom_defrag" /\ last.ret = "Done" /\ defrag.visited = <<0>>
    /\ metrics.num_items = 2

\* What an invocation does that takes defrag from d to d2 on filters fs and
\* returns ret: the cursor is read (0 when none is saved) and written back, each
\* processed filter costs one should_stop call and three alloc calls, MoreWork is
\* returned exactly when the cursor is below the number of filters, then with
\* the processed indices 0 .. cursor-1 and no attempt on the filter vector or
\* the object, and Done comes with one attempt on each of the two.
SavedCursor(d) == IF d.in_pass THEN d.cursor ELSE 0
InvocationContract(d, d2, fs, ret) ==
    LET steps == d2.cursor - SavedCursor(d)
    IN  /\ d2.calls.get_cursor = 1 /\ d2.calls.set_cursor = 1
        /\ steps >= 0 /\ d2.cursor <= Len(fs)
        /\ d2.calls.should_stop = steps + 1
        /\ d2.calls.alloc = 3 * steps + d2.calls.vec + d2.calls.object
        /\ d2.visited = [i \in 1..d2.cursor |-> i - 1]
        /\ (ret = "MoreWork") <=> (d2.cursor < Len(fs))
        /\ (ret = "MoreWork") => (d2.in_pass /\ d2.calls.vec = 0 /\ d2.calls.object = 0)
        /\ (ret = "Done") => (~d2.in_pass /\ d2.calls.vec = 1 /\ d2.calls.object = 1)
        /\ ret \in {"MoreWork", "Done"}

\* The loop runs while should_stop answers false (k times) and filters are left.
LoopRunsWhileAllowed ==
    \A k \in 0..FMax, h \in LoopHits, moved \in BOOLEAN :
        (last'.op = "bloom_defrag" /\ defrag.enabled /\ BloomDefrag(k, h, TRUE, moved))
            => defrag'.cursor = Min(SavedCursor(defrag) + k, Len(FiltersOf(obj)))

C28_DisabledIsNoOp ==
    [][(last'.op = "bloom_defrag" /\ ~defrag.enabled)
         => /\ last'.ret = "Done"
            /\ defrag'.calls = NoCalls
            /\ ~defrag'.relocated
            /\ [defrag' EXCEPT !.calls = NoCalls, !.relocated = FALSE]
                 = [defrag EXCEPT !.calls = NoCalls, !.relocated = FALSE]
            /\ metrics' = metrics
            /\ obj' = obj]_vars

\* A disabled invocation on an object of two filters.
C28_Witness ==
    /\ ~defrag.enabled /\ last.op = "bloom_defrag" /\ last.ret = "Done"
    /\ Len(FiltersOf(obj)) = 2 /\ defrag.hits + defrag.misses = 0

\* C29: every alloc attempt of an invocation increments exactly one of the two
\* counters, hits for a non-null answer and misses for a null one: hits + misses
\* grows by the number of attempts and misses by the number of null answers.
C29_OneCounterPerAttempt ==
    [][last'.op = "bloom_defrag"
         => /\ (defrag'.hits + defrag'.misses) - (defrag.hits + defrag.misses)
                 = defrag'.calls.alloc
            /\ defrag'.misses - defrag.misses = defrag'.nulls - defrag.nulls]_vars

\* C30: after an invocation, whichever answers alloc gave and however many
\* filters it processed, every filter holds its own Bloom with its bits (never
\* the spare), the slot DEFRAG_BLOOM_FILTER holds the placeholder again, and no
\* take of the spare has found the slot empty.
C30_FiltersKeepTheirBloom ==
    [][last'.op = "bloom_defrag"
         => /\ last'.ret # "Panic"
            /\ defrag'.spare = <<DEFRAG_BLOOM_FILTER>>
            /\ Len(FiltersOf(obj')) = Len(FiltersOf(obj))
            /\ \A i \in 1..Len(FiltersOf(obj)) :
                  BloomOf(FiltersOf(obj')[i]) = BloomOf(FiltersOf(obj)[i])]_vars

\* A pass over FMax filters has ended with null and non-null answers, the first
\* invocation having stopped after one filter.
C30_Witness ==
    /\ DefragDone /\ defrag.enabled /\ defrag.resumed
    /\ Len(FiltersOf(obj)) = FMax /\ defrag.visited = <<0, 1, 2>>
    /\ defrag.nulls >= 2 /\ defrag.hits >= 2
    /\ defrag.spare = <<DEFRAG_BLOOM_FILTER>>

\* C31: saving the object under the key with bloom_rdb_save and loading the
\* stream with load_from_rdb gives an object with the same expansion, fp rate,
\* tightening ratio, is_seed_random and number of filters, and in each filter the
\* same bits, capacity and n, hence the same cardinality.
SameAfterLoad(o, p) ==
    /\ p.expansion = o.expansion /\ p.fp_rate = o.fp_rate
    /\ p.tightening_ratio = o.tightening_ratio
    /\ p.is_seed_random = o.is_seed_random
    /\ Len(p.filters) = Len(o.filters)
    /\ \A i \in 1..Len(o.filters) :
          /\ BloomOf(p.filters[i]) = BloomOf(o.filters[i])
          /\ p.filters[i].capacity = o.filters[i].capacity
          /\ p.filters[i].num_items = o.filters[i].num_items
    /\ cardinality(p) = cardinality(o)
C31_SnapshotRoundTrip ==
    [][(obj # <<>> /\ RdbLoad(bloom_rdb_save(obj[1]), BLOOM_FILTER_TYPE_ENCODING_VERSION))
         => (last'.ret = "Some" /\ copy' # <<>> /\ SameAfterLoad(obj[1], copy'[1]))]_vars

\* C32: an add_item changes no filter but the last one of the time of the call;
\* a scale-out leaves every existing filter, the last one included, as it was and
\* appends one filter with n = 1.
C32_OnlyLastFilterChanges ==
    [][AddItemStep
         => LET fs == obj[1].filters
                gs == obj'[1].filters
            IN  /\ Len(gs) \in {Len(fs), Len(fs) + 1}
                /\ \A i \in 1..(Len(fs) - 1) : gs[i] = fs[i]
                /\ (Len(gs) = Len(fs) + 1)
                     => (gs[Len(fs)] = fs[Len(fs)] /\ gs[Len(gs)].num_items = 1)
                /\ gs[Len(fs)].capacity = fs[Len(fs)].capacity]_vars

\* A scale-out has appended a third filter.
C32_Witness ==
    /\ obj # <<>> /\ Len(obj[1].filters) = 3
    /\ last.op = "add_item" /\ last.ret = "Ok1"
    /\ obj[1].filters[3].num_items = 1 /\ obj[1].filters[2].num_items = obj[1].filters[2].capacity

\* The failure conditions of a scale-out of o, from its fields.
LastFilter(o) == o.filters[Len(o.filters)]
RateReachesZero(o) ==
    (o.fp_rate * Powi(o.tightening_ratio, Len(o.filters))) \div FP_ONE <= F64_MIN_POSITIVE
CapacityOverflows(o) == LastFilter(o).capacity * o.expansion > I64Max
ScaledSizeExceeds(o) ==
    memory_usage(o)
    + FilterComputeSize(LastFilter(o).capacity * o.expansion,
                        (o.fp_rate * Powi(o.tightening_ratio, Len(o.filters))) \div FP_ONE)
      > memory_limit
ExpectedScaleOut(o, validate) ==
    IF o.expansion = 0 THEN "NonScalingFilterFull"
    ELSE IF Len(o.filters) = FMax THEN "MaxNumScalingFilters"
    ELSE IF RateReachesZero(o) THEN "FalsePositiveReachesZero"
    ELSE IF CapacityOverflows(o) THEN "BadCapacity"
    ELSE IF validate /\ ScaledSizeExceeds(o) THEN "ExceedsMaxBloomSize"
    ELSE "Ok1"

\* C33: when the item is new and the last filter is full, add_item returns the
\* first failure that holds in the order NonScalingFilterFull,
\* MaxNumScalingFilters, FalsePositiveReachesZero, BadCapacity,
\* ExceedsMaxBloomSize (the last only when validate_size is set), and 1 when none
\* holds.
C33_FailureOrder ==
    [][(AddItemStep /\ ~item_exists(obj[1], last'.input)
        /\ LastFilter(obj[1]).num_items = LastFilter(obj[1]).capacity)
         => last'.ret = ExpectedScaleOut(obj[1], last'.validate)]_vars

\* An add has failed with FalsePositiveReachesZero on an object on which the
\* capacity overflows and the size exceeds the limit as well.
C33_Witness ==
    /\ obj # <<>> /\ last.op = "add_item" /\ last.ret = "FalsePositiveReachesZero"
    /\ last.validate
    /\ RateReachesZero(obj[1]) /\ CapacityOverflows(obj[1]) /\ ScaledSizeExceeds(obj[1])

\* C34: a failing add_item leaves the object and every metrics counter as they
\* were before the call.
C34_FailureChangesNothing ==
    [][(AddItemStep /\ last'.ret \notin {"Ok0", "Ok1"})
         => (obj' = obj /\ metrics' = metrics /\ added' = added)]_vars

\* A validated add has failed with ExceedsMaxBloomSize on an object of two filters.
C34_Witness ==
    /\ obj # <<>> /\ Len(obj[1].filters) = 2
    /\ last.op = "add_item" /\ last.ret = "ExceedsMaxBloomSize"
    /\ metrics.num_filters = 2 /\ metrics.num_items = cardinality(obj[1])

\* e is a BF.INSERT on the key that carries the properties of the created object o
\* (the capacity of its first filter, P, r, the seed, NONSCALING or EXPANSION E)
\* and the items, after ITEMS, when there are any.
IsReconstruction(e, o, items) ==
    /\ Len(e) >= 11
    /\ SubSeq(e, 1, 3) = <<BF_INSERT, KEY_NAME, KW_CAPACITY>>
    /\ ParseInt(e[4], I64Max) = [ok |-> TRUE, val |-> o.filters[1].capacity]
    /\ e[5] = KW_ERROR /\ ParseF64(e[6]) = [ok |-> TRUE, val |-> o.fp_rate]
    /\ e[7] = KW_TIGHTENING /\ ParseF64(e[8]) = [ok |-> TRUE, val |-> o.tightening_ratio]
    /\ e[9] = KW_SEED /\ e[10] = <<o.filters[1].seed>>
    /\ SubSeq(e, 11, Len(e))
         = (IF o.expansion = 0 THEN <<KW_NONSCALING>>
            ELSE <<KW_EXPANSION, IntToString(o.expansion)>>)
           \o (IF items = <<>> THEN <<>> ELSE <<KW_ITEMS>> \o items)

\* What the step of the command cmd with the given items hands to the replicas.
EmitContract(cmd, items) ==
    IF obj = <<>>
    THEN IF obj' = <<>> THEN repl' = <<>>
         ELSE Len(repl') = 1 /\ IsReconstruction(repl'[1], obj'[1], items)
    ELSE repl' = IF cardinality(obj'[1]) > cardinality(obj[1]) THEN <<cmd>> ELSE <<>>

\* C35: a command that creates the object emits exactly one BF.INSERT with the
\* created object's capacity, error rate, tightening ratio, seed, NONSCALING or
\* EXPANSION, and ITEMS with the command's items when it has any; BF.ADD, BF.MADD
\* and BF.INSERT on an existing object emit the command verbatim when an item was
\* added and nothing when none was.
C35_Emission ==
    /\ [][\A c \in Capacities, options \in ReserveOptions :
            (last'.op = "BF.RESERVE" /\ obj = <<>> /\ BfReserve(8, c, options))
                => EmitContract(<<>>, <<>>)]_vars
    /\ [][\A item \in Items :
            (last'.op = "BF.ADD" /\ BfAdd(item))
                => EmitContract(<<BF_ADD, KEY_NAME, item>>, <<item>>)]_vars
    /\ [][\A items \in ItemPairs :
            (last'.op = "BF.MADD" /\ BfMAdd(items))
                => EmitContract(<<BF_MADD, KEY_NAME>> \o items, items)]_vars
    /\ [][\A options \in EmitOptions, items \in ItemLists :
            (last'.op = "BF.INSERT" /\ BfInsert(options, items))
                => EmitContract(<<BF_INSERT, KEY_NAME>> \o options \o <<KW_ITEMS>> \o items,
                                items)]_vars
    /\ [][\A options \in EmitOptions :
            (last'.op = "BF.INSERT" /\ BfInsertOptions(options))
                => EmitContract(<<BF_INSERT, KEY_NAME>> \o options, <<>>)]_vars

\* A BF.MADD of two items has created the object, scaled it out, and emitted one
\* BF.INSERT with the capacity of the first filter.
C35_Witness ==
    /\ obj # <<>> /\ Len(obj[1].filters) = 2 /\ last.op = "BF.MADD"
    /\ Len(repl) = 1 /\ repl[1][1] = BF_INSERT
    /\ ParseInt(repl[1][4], I64Max).val = 1 /\ capacity(obj[1]) = 2

\* An invocation whose first should_stop answers false, with filters left,
\* moves the cursor forward.
ProgressingInvocation ==
    \A k \in 1..FMax, h \in LoopHits, moved \in BOOLEAN :
        (last'.op = "bloom_defrag" /\ defrag.enabled
         /\ SavedCursor(defrag) < Len(FiltersOf(obj)) /\ BloomDefrag(k, h, TRUE, moved))
            => /\ defrag'.cursor >= SavedCursor(defrag) + 1
               /\ Len(defrag'.visited) = defrag'.cursor

\* C36: an invocation that finds should_stop false on its first call while the
\* cursor is below the number of filters advances the cursor by at least one,
\* the cursor never passes the number of filters, so at most that many
\* invocations of a pass progress; and when no filter is added during the pass
\* and should_stop is false at the start of an invocation again and again, the
\* pass returns Done.
C36_PassTerminates ==
    /\ [][ProgressingInvocation]_vars
    /\ [](defrag.cursor <= Len(FiltersOf(obj)))
    /\ [][(last'.op = "bloom_defrag" /\ defrag.in_pass) => defrag'.cursor >= defrag.cursor]_vars
    /\ \A c \in 0..(FMax - 1) :
          (defrag.in_pass /\ defrag.cursor = c) ~> (DefragDone \/ defrag.cursor > c)
    /\ (defrag.in_pass ~> DefragDone)

\* A pass over FMax filters has ended after FMax invocations that each processed
\* one filter.
C36_Witness ==
    /\ DefragDone /\ defrag.enabled /\ defrag.resumed
    /\ Len(FiltersOf(obj)) = FMax /\ defrag.cursor = FMax
    /\ defrag.calls.should_stop = 2 /\ defrag.hits + defrag.misses = 3 * FMax + 2

\* C37: with adds between the invocations of a pass, a pass returns Done only
\* when every filter of the object, those appended during the pass included, has
\* been processed, each filter is processed once and in order, no invocation
\* changes a filter, and every item an add stored is still reported.
C37_AddsBetweenInvocations ==
    /\ [](defrag.enabled =>
            /\ VisitedInOrder
            /\ defrag.cursor <= Len(FiltersOf(obj))
            /\ DefragDone => defrag.cursor = Len(FiltersOf(obj)))
    /\ [](\A x \in added : item_exists(obj[1], x))
    /\ [][last'.op = "bloom_defrag"
            => (FiltersOf(obj') = FiltersOf(obj) /\ added' = added)]_vars

\* A pass that started on one filter has ended on FMax filters: two were
\* appended between its invocations.
C37_Witness ==
    /\ DefragDone /\ defrag.enabled /\ defrag.resumed
    /\ defrag.pass_len = 1 /\ Len(FiltersOf(obj)) = FMax
    /\ defrag.visited = <<0, 1, 2>> /\ Cardinality(added) = FMax

RECURSIVE LiveTotal(_, _)
LiveTotal(F(_), os) == IF os = <<>> THEN 0 ELSE F(Head(os)) + LiveTotal(F, Tail(os))

\* The counters equal the totals over the live objects.
CountersMatch ==
    /\ metrics.num_objects = Len(LiveObjects)
    /\ metrics.num_filters = LiveTotal(num_filters, LiveObjects)
    /\ metrics.num_items = LiveTotal(cardinality, LiveObjects)
    /\ metrics.capacity = LiveTotal(capacity, LiveObjects)

\* An operation that failed: new_reserved, add_item, decode_object or load_from_rdb.
FailedOperation(l) ==
    /\ l.op \in {"new_reserved", "add_item", "decode_object", "load_from_rdb"}
    /\ l.ret \notin {"Ok", "Ok0", "Ok1", "Some"}

\* C38: the process-wide counters equal the totals over the live objects in every
\* state (so none has wrapped below zero), and a failed operation leaves every
\* counter as before.
C38_MetricsConsistent ==
    /\ []CountersMatch
    /\ [][FailedOperation(last') => metrics' = metrics]_vars

====
